---- MODULE Spec2Model ----
(***************************************************************************)
(* Model of ezdxf.graphicsfactory2.CreatorInterface: the entity factory    *)
(* of a layout.  A behaviour is a sequence of factory calls made by an     *)
(* application against one document.  Every method of the class is an     *)
(* operator from (self, arguments) to an outcome [w, err, ret]: the state  *)
(* of the document after the call, the exception raised ("" when none)     *)
(* and the value returned.  Every collaborator call the method makes is    *)
(* appended to the call log w.calls in program order.                      *)
(***************************************************************************)
EXTENDS Integers, Sequences, FiniteSets, TLC

VARIABLES
    dxfversion,    \* doc.dxfversion, a version string as character codes
    db,            \* entity database: <<[handle, dxftype], ...>> in creation order
    space,         \* entity space of the layout: handles in add_entity order
    objects,       \* objects section: handles of the image-definition reactors
    image_def,     \* the ImageDef the application passes to add_image
    underlay_def,  \* the UnderlayDef the application passes to add_underlay
    blocks,        \* doc.blocks: block name -> [attdefs, space] of the block layout
    result         \* the last factory call: op, args, err, ret, calls

vars == <<dxfversion, db, space, objects, image_def, underlay_def, blocks, result>>

(***************************** bounds **************************************)
MaxEntities == 1
MaxPoints == 5
MaxAnonymous == 1

(************************ python values ************************************)
\* Optional arguments: None is <<>>, a present value v is <<v>>.
None == <<>>
Some(v) == <<v>>
IsNone(m) == m = <<>>

\* The contents of a dict: a function from its keys to its values.
EmptyDict == [k \in {} |-> FALSE]
With(d, k, v) == [a \in (DOMAIN d) \cup {k} |-> IF a = k THEN v ELSE d[a]]
Lookup(d, k, default) == IF k \in DOMAIN d THEN d[k] ELSE default
Without(d, k) == [a \in (DOMAIN d) \ {k} |-> d[a]]
Update(d, e) == [a \in (DOMAIN d) \cup (DOMAIN e) |-> IF a \in DOMAIN e THEN e[a] ELSE d[a]]

\* A dict object [own, d]: its contents d, and whether it is the object the
\* application passed in ("caller") or one the factory made ("local").  An
\* assignment, a pop or a setdefault changes the object it is applied to.
Local(d) == [own |-> "local", d |-> d]
Caller(dxfattribs) ==
    IF IsNone(dxfattribs) THEN None ELSE Some([own |-> "caller", d |-> dxfattribs[1]])
Contents(dxfattribs) == IF IsNone(dxfattribs) THEN EmptyDict ELSE dxfattribs[1]
Put(o, k, v) == [o EXCEPT !.d = With(@, k, v)]
Get(o, k, default) == Lookup(o.d, k, default)
Pop_mutant_keep(o, k) == o
Pop(o, k) == [o EXCEPT !.d = Without(@, k)]

\* dict(dxfattribs or {}): a new dict object with the contents of the argument,
\* empty when the argument is None.
DictOr(dxfattribs) ==
    IF IsNone(dxfattribs) THEN Local(EmptyDict) ELSE Local(dxfattribs[1].d)

\* str < str of Python: lexicographic order on the character codes.
RECURSIVE StrLess(_, _)
StrLess(a, b) ==
    IF b = <<>> THEN FALSE
    ELSE IF a = <<>> THEN TRUE
    ELSE IF a[1] # b[1] THEN a[1] < b[1]
    ELSE StrLess(Tail(a), Tail(b))

\* Version strings of ezdxf.lldxf.const: "AC1009" (R12), "AC1015" (R2000),
\* "AC1018" (R2004), "AC1021" (R2007).
AC1009 == <<65, 67, 49, 48, 48, 57>>
AC1015 == <<65, 67, 49, 48, 49, 53>>
AC1018 == <<65, 67, 49, 48, 49, 56>>
AC1021 == <<65, 67, 49, 48, 50, 49>>
DXF2000 == AC1015
DXF2007 == AC1021
Versions == {AC1009, AC1015, AC1018, AC1021}

(************************ outcomes *****************************************)
NoRet == <<>>
Ok(w, ret) == [w |-> w, err |-> "", ret |-> ret]
Raise(w, e) == [w |-> w, err |-> e, ret |-> NoRet]
Log(w, call) == [w EXCEPT !.calls = Append(@, call)]

(************************ collaborators ************************************)
\* A dict object reaches a collaborator.  When it is the object of the
\* application, what the factory has assigned to it and popped from it was
\* done to the application's mapping, which now has these contents.
Handed(w, o) == IF o.own = "caller" THEN [w EXCEPT !.inplace = Some(o.d)] ELSE w

NextHandle(w) == Len(w.db) + Len(w.objects) + 1

\* doc.dxffactory.create_db_entry(type_, dxfattribs): allocates a handle and
\* stores a new entity with the given attributes, or fails.
create_db_entry(w, type_, dxfattribs) ==
    LET w1 == Log(Handed(w, dxfattribs),
                  [fn |-> "create_db_entry", type |-> type_, dxfattribs |-> dxfattribs.d])
        h == NextHandle(w)
    IN  IF ~w.dbok THEN Raise(w1, "DXFError")
        ELSE Ok([w1 EXCEPT !.db = Append(@, [handle |-> h, dxftype |-> type_])],
                [handle |-> h, dxftype |-> type_, dxf |-> dxfattribs.d])

\* add_entity(entity) of the layout: the entity joins the entity space of the
\* layout the factory belongs to, the layout of the application or a block.
Modelspace == "Model"
add_entity(w, entity) ==
    LET w1 == Log(w, [fn |-> "add_entity", handle |-> entity.handle])
    IN  IF w.layout = Modelspace
        THEN Ok([w1 EXCEPT !.space = Append(@, entity.handle)], NoRet)
        ELSE Ok([w1 EXCEPT !.blocks[w.layout].space = Append(@, entity.handle)], NoRet)

\* entity[x] = point
setitem(w, entity, x, point) ==
    Log(w, [fn |-> "setitem", handle |-> entity.handle, index |-> x, value |-> point])

(************************ CreatorInterface *********************************)
new_entity_mutant_retry(self, type_, dxfattribs) ==
    LET c == create_db_entry(self, type_, dxfattribs)
        again == create_db_entry(c.w, type_, dxfattribs)
    IN  IF c.err # "" THEN again
        ELSE Ok(add_entity(c.w, c.ret).w, c.ret)

new_entity(self, type_, dxfattribs) ==
    LET c == create_db_entry(self, type_, dxfattribs)
    IN  IF c.err # "" THEN c
        ELSE Ok(add_entity(c.w, c.ret).w, c.ret)

\* The generator _four_points, run to its end: the vertices it yields and the
\* exception that ends it ("" when it ends normally).  The length test runs
\* when the first item is requested, before anything is yielded.
four_points_mutant_first(points) ==
    LET vertices == points
    IN  IF Len(vertices) \notin {3, 4}
        THEN [yielded |-> <<>>, err |-> "DXFValueError"]
        ELSE [yielded |-> IF Len(vertices) = 3 THEN Append(vertices, vertices[1])
                          ELSE vertices,
              err |-> ""]

four_points_mutant_late(points) ==
    LET vertices == points
    IN  IF Len(vertices) \notin {3, 4}
        THEN [yielded |-> vertices, err |-> "DXFValueError"]
        ELSE [yielded |-> IF Len(vertices) = 3 THEN Append(vertices, vertices[Len(vertices)])
                          ELSE vertices,
              err |-> ""]

four_points(points) ==
    LET vertices == points
    IN  IF Len(vertices) \notin {3, 4}
        THEN [yielded |-> <<>>, err |-> "DXFValueError"]
        ELSE [yielded |-> IF Len(vertices) = 3 THEN Append(vertices, vertices[Len(vertices)])
                          ELSE vertices,
              err |-> ""]

\* for x, point in enumerate(items): entity[x] = point
RECURSIVE SetItems(_, _, _, _)
SetItems(w, entity, items, x) ==
    IF items = <<>> THEN w
    ELSE SetItems(setitem(w, entity, x, Head(items)), entity, Tail(items), x + 1)

add_quadrilateral(self, type_, points, dxfattribs) ==
    LET attribs == DictOr(dxfattribs)
        e == new_entity(self, type_, attribs)
        g == four_points(points)
        w1 == SetItems(e.w, e.ret, g.yielded, 0)
    IN  IF e.err # "" THEN e
        ELSE IF g.err # "" THEN Raise(w1, g.err)
        ELSE Ok(w1, e.ret)

add_solid(self, points, dxfattribs) == add_quadrilateral(self, "SOLID", points, dxfattribs)
add_trace(self, points, dxfattribs) == add_quadrilateral(self, "TRACE", points, dxfattribs)
add_3dface(self, points, dxfattribs) == add_quadrilateral(self, "3DFACE", points, dxfattribs)

\* self.dxfversion < version
VersionBelow(self, version) == StrLess(self.dxfversion, version)

\* Numbers that are not whole are ratios <<numerator, denominator>>, denominator > 0.
RatGreater(a, b) == a[1] * b[2] > b[1] * a[2]
RatOne == <<1, 1>>

add_ellipse_mutant_ge(self, center, major_axis, ratio, start_param, end_param, dxfattribs) ==
    IF StrLess(self.dxfversion, AC1015) THEN Raise(self, "DXFVersionError")
    ELSE IF ~RatGreater(RatOne, ratio) THEN Raise(self, "DXFValueError")
    ELSE new_entity(self, "ELLIPSE",
            Put(Put(Put(Put(Put(DictOr(dxfattribs), "center", center),
                "major_axis", major_axis), "ratio", ratio),
                "start_param", start_param), "end_param", end_param))

add_ellipse_mutant_ratio_first(self, center, major_axis, ratio, start_param, end_param, dxfattribs) ==
    IF RatGreater(ratio, RatOne) THEN Raise(self, "DXFValueError")
    ELSE IF StrLess(self.dxfversion, AC1015) THEN Raise(self, "DXFVersionError")
    ELSE new_entity(self, "ELLIPSE",
            Put(Put(Put(Put(Put(DictOr(dxfattribs), "center", center),
                "major_axis", major_axis), "ratio", ratio),
                "start_param", start_param), "end_param", end_param))

add_ellipse(self, center, major_axis, ratio, start_param, end_param, dxfattribs) ==
    IF StrLess(self.dxfversion, AC1015) THEN Raise(self, "DXFVersionError")
    ELSE IF RatGreater(ratio, RatOne) THEN Raise(self, "DXFValueError")
    ELSE new_entity(self, "ELLIPSE",
            Put(Put(Put(Put(Put(DictOr(dxfattribs), "center", center),
                "major_axis", major_axis), "ratio", ratio),
                "start_param", start_param), "end_param", end_param))

\* entity.name = value
setattr(w, entity, name, value) ==
    Log(w, [fn |-> "setattr", handle |-> entity.handle, name |-> name, value |-> value])

\* entity.method(args)
callmethod(w, entity, method, args) ==
    Log(w, [fn |-> method, handle |-> entity.handle, args |-> args])

add_lwpolyline(self, points, format, dxfattribs) ==
    IF VersionBelow(self, DXF2000) THEN Raise(self, "DXFVersionError")
    ELSE
        LET attribs == DictOr(dxfattribs)
            closed == Get(attribs, "closed", FALSE)
            e == new_entity(self, "LWPOLYLINE", Pop(attribs, "closed"))
            w1 == callmethod(e.w, e.ret, "set_points", [points |-> points, format |-> format])
            w2 == setattr(w1, e.ret, "closed", closed)
        IN  IF e.err # "" THEN e ELSE Ok(w2, e.ret)

add_mtext(self, text, dxfattribs) ==
    IF VersionBelow(self, DXF2000) THEN Raise(self, "DXFVersionError")
    ELSE
        LET e == new_entity(self, "MTEXT", DictOr(dxfattribs))
        IN  IF e.err # "" THEN e ELSE Ok(setattr(e.w, e.ret, "text", text), e.ret)

add_ray(self, start, unit_vector, dxfattribs) ==
    IF VersionBelow(self, DXF2000) THEN Raise(self, "DXFVersionError")
    ELSE new_entity(self, "RAY",
            Put(Put(DictOr(dxfattribs), "start", start), "unit_vector", unit_vector))

add_xline(self, start, unit_vector, dxfattribs) ==
    IF VersionBelow(self, DXF2000) THEN Raise(self, "DXFVersionError")
    ELSE new_entity(self, "XLINE",
            Put(Put(DictOr(dxfattribs), "start", start), "unit_vector", unit_vector))

add_spline(self, fit_points, degree, dxfattribs) ==
    IF VersionBelow(self, DXF2000) THEN Raise(self, "DXFVersionError")
    ELSE
        LET e == new_entity(self, "SPLINE", Put(DictOr(dxfattribs), "degree", degree))
        IN  IF e.err # "" THEN e
            ELSE IF ~IsNone(fit_points)
            THEN Ok(setattr(e.w, e.ret, "fit_points", fit_points[1]), e.ret)
            ELSE e

\* The setters of the SPLINE entity store the control points and the degree
\* and derive the knot values from their number: clamped for the open
\* variants, evenly spaced for the periodic ones.  The rational setters store
\* the weights as well, which have to be as many as the control points.
open_uniform_knot_vector(n, order) ==
    [i \in 1..(n + order) |-> IF i <= order THEN 0 ELSE IF i > n THEN n - order + 1 ELSE i - order]
uniform_knot_vector(n, order) == [i \in 1..(n + order) |-> i - 1]

SplineWith(spline, control_points, weights, degree, knots) ==
    [handle |-> spline.handle, dxftype |-> spline.dxftype,
     dxf |-> With(spline.dxf, "degree", degree),
     control_points |-> control_points, weights |-> weights, knots |-> knots]

ApplySetter(setter, spline, a) ==
    LET n == Len(a.control_points)
        order == a.degree + 1
    IN  CASE setter = "set_open_uniform" ->
               [err |-> "", spline |-> SplineWith(spline, a.control_points, None, a.degree,
                                                  open_uniform_knot_vector(n, order))]
          [] setter = "set_periodic" ->
               [err |-> "", spline |-> SplineWith(spline, a.control_points, None, a.degree,
                                                  uniform_knot_vector(n, order))]
          [] setter = "set_open_rational" ->
               IF Len(a.weights) # n THEN [err |-> "DXFValueError"]
               ELSE [err |-> "", spline |-> SplineWith(spline, a.control_points, Some(a.weights),
                                                       a.degree, open_uniform_knot_vector(n, order))]
          [] setter = "set_periodic_rational" ->
               IF Len(a.weights) # n THEN [err |-> "DXFValueError"]
               ELSE [err |-> "", spline |-> SplineWith(spline, a.control_points, Some(a.weights),
                                                       a.degree, uniform_knot_vector(n, order))]

\* spline = self.add_spline(dxfattribs=dxfattribs); spline.<setter>(...);
\* if knots is not None: spline.knots = knots
SplineFrom(self, setter, args, knots, dxfattribs) ==
    LET s == add_spline(self, None, 3, dxfattribs)
        w1 == callmethod(s.w, s.ret, setter, args)
        set == ApplySetter(setter, s.ret, args)
        w2 == IF ~IsNone(knots) THEN setattr(w1, s.ret, "knots", knots[1]) ELSE w1
        spline == IF ~IsNone(knots) THEN [set.spline EXCEPT !.knots = knots[1]] ELSE set.spline
    IN  IF s.err # "" THEN s
        ELSE IF set.err # "" THEN Raise(w1, set.err)
        ELSE Ok(w2, spline)

add_open_spline(self, control_points, degree, knots, dxfattribs) ==
    SplineFrom(self, "set_open_uniform",
               [control_points |-> control_points, degree |-> degree], knots, dxfattribs)

add_closed_spline(self, control_points, degree, knots, dxfattribs) ==
    SplineFrom(self, "set_periodic",
               [control_points |-> control_points, degree |-> degree], knots, dxfattribs)

add_rational_spline(self, control_points, weights, degree, knots, dxfattribs) ==
    SplineFrom(self, "set_open_rational",
               [control_points |-> control_points, weights |-> weights, degree |-> degree],
               knots, dxfattribs)

add_closed_rational_spline(self, control_points, weights, degree, knots, dxfattribs) ==
    SplineFrom(self, "set_periodic_rational",
               [control_points |-> control_points, weights |-> weights, degree |-> degree],
               knots, dxfattribs)

add_acis_entiy(self, name, acis_data, dxfattribs) ==
    IF VersionBelow(self, DXF2000) THEN Raise(self, "DXFVersionError")
    ELSE
        LET e == new_entity(self, name, DictOr(dxfattribs))
        IN  IF e.err # "" THEN e
            ELSE IF ~IsNone(acis_data)
            THEN Ok(callmethod(e.w, e.ret, "set_acis_data", [acis_data |-> acis_data[1]]), e.ret)
            ELSE e

add_body(self, acis_data, dxfattribs) == add_acis_entiy(self, "BODY", acis_data, dxfattribs)
add_region(self, acis_data, dxfattribs) == add_acis_entiy(self, "REGION", acis_data, dxfattribs)
add_3dsolid(self, acis_data, dxfattribs) == add_acis_entiy(self, "3DSOLID", acis_data, dxfattribs)

add_surface_mutant_gate(self, acis_data, dxfattribs) ==
    add_acis_entiy(self, "SURFACE", acis_data, dxfattribs)

add_surface(self, acis_data, dxfattribs) ==
    IF VersionBelow(self, DXF2007) THEN Raise(self, "DXFVersionError")
    ELSE add_acis_entiy(self, "SURFACE", acis_data, dxfattribs)

add_extruded_surface(self, acis_data, dxfattribs) ==
    IF VersionBelow(self, DXF2007) THEN Raise(self, "DXFVersionError")
    ELSE add_acis_entiy(self, "EXTRUDEDSURFACE", acis_data, dxfattribs)

add_lofted_surface(self, acis_data, dxfattribs) ==
    IF VersionBelow(self, DXF2007) THEN Raise(self, "DXFVersionError")
    ELSE add_acis_entiy(self, "LOFTEDSURFACE", acis_data, dxfattribs)

add_revolved_surface(self, acis_data, dxfattribs) ==
    IF VersionBelow(self, DXF2007) THEN Raise(self, "DXFVersionError")
    ELSE add_acis_entiy(self, "REVOLVEDSURFACE", acis_data, dxfattribs)

add_swept_surface(self, acis_data, dxfattribs) ==
    IF VersionBelow(self, DXF2007) THEN Raise(self, "DXFVersionError")
    ELSE add_acis_entiy(self, "SWEPTSURFACE", acis_data, dxfattribs)

add_hatch(self, color, dxfattribs) ==
    IF VersionBelow(self, DXF2000) THEN Raise(self, "DXFVersionError")
    ELSE new_entity(self, "HATCH",
            Put(Put(Put(DictOr(dxfattribs), "solid_fill", 1), "color", color),
                "pattern_name", "SOLID"))

add_mesh(self, dxfattribs) ==
    IF VersionBelow(self, DXF2000) THEN Raise(self, "DXFVersionError")
    ELSE new_entity(self, "MESH", DictOr(dxfattribs))

\* Vector(v): a 2D point gets z = 0.
Vector(v) == IF Len(v) = 2 THEN <<v[1], v[2], 0>> ELSE v

\* Fractions <<numerator, denominator>> in lowest terms, denominator > 0.
RECURSIVE GCD(_, _)
GCD(a, b) == IF b = 0 THEN a ELSE GCD(b, a % b)
Abs(a) == IF a < 0 THEN -a ELSE a
Rat(n, d) == IF n = 0 THEN <<0, 1>> ELSE <<n \div GCD(Abs(n), d), d \div GCD(Abs(n), d)>>
\* x_units / x_pixels
TrueDiv(a, b) == Rat(IF b < 0 THEN -a ELSE a, Abs(b))
\* The integer nearest to a / b for b > 0, where a / b is not halfway between
\* two integers.
RoundDiv(a, b) == IF 2 * (a % b) < b THEN a \div b ELSE (a \div b) + 1
\* The cosine and the sine of a whole multiple of 90 degrees.
CosDeg(deg) ==
    CASE deg % 360 = 0 -> 1 [] deg % 360 = 180 -> -1 [] deg % 360 \in {90, 270} -> 0
SinDeg(deg) ==
    CASE deg % 360 = 90 -> 1 [] deg % 360 = 270 -> -1 [] deg % 360 \in {0, 180} -> 0
\* A float of the code that is not computed here: the value is named by the
\* expression that yields it, round(fn(angle_in_rad) * units_per_pixel, 6).
\* An angle in radians is the record of the degrees math.radians converted
\* and the quarter turns (math.pi / 2.) added to the result.
Rounded(fn, angle_in_rad, units_per_pixel) ==
    [round |-> [fn |-> fn, angle_in_rad |-> angle_in_rad,
                units_per_pixel |-> units_per_pixel],
     ndigits |-> 6]
\* round(math.cos(angle_in_rad) * units_per_pixel, 6), and the same for
\* math.sin.  The fraction is computed where the float arithmetic is exact to
\* the sixth decimal: the angle comes from a whole multiple of 90 degrees of
\* at most ten turns, where the float cosine and sine are -1.0, 1.0 or within
\* 1e-13 of 0; units_per_pixel is at most 2147 with a denominator of at most
\* 1000, so that the residue times units_per_pixel stays below 1e-9 and the
\* quotient is further from a rounding boundary than its float error; and
\* the product is not halfway between two multiples of 10^-6 (there the
\* binary float decides the direction).  Everywhere else the value is the
\* named float.
round6(fn, angle_in_rad, units_per_pixel) ==
    LET deg == angle_in_rad.deg + 90 * angle_in_rad.quarter
        c == IF fn = "cos" THEN CosDeg(deg) ELSE SinDeg(deg)
        n == 1000000 * units_per_pixel[1]
        d == units_per_pixel[2]
    IN  IF \/ angle_in_rad.deg % 90 # 0
           \/ Abs(angle_in_rad.deg) > 3600
           \/ Abs(units_per_pixel[1]) > 2147
           \/ d > 1000
        THEN Rounded(fn, angle_in_rad, units_per_pixel)
        ELSE IF c = 0 THEN <<0, 1>>
        ELSE IF 2 * (n % d) = d THEN Rounded(fn, angle_in_rad, units_per_pixel)
        ELSE Rat(c * RoundDiv(n, d), 1000000)
\* to_vector(units_per_pixel, angle_in_rad); units_per_pixel is a fraction.
to_vector(units_per_pixel, angle_in_rad) ==
    <<round6("cos", angle_in_rad, units_per_pixel),
      round6("sin", angle_in_rad, units_per_pixel), 0>>

\* image_def.append_reactor_handle(handle), underlay_def.append_reactor_handle(handle)
append_reactor_handle(def, handle) == [def EXCEPT !.reactors = Append(@, handle)]

\* The reactor is registered under "if self.doc is not None": self.doc is the
\* document on every path that passes the version gate, which reads
\* self.doc.dxfversion.
add_image(self, insert, size_in_units, rotation, dxfattribs) ==
    IF VersionBelow(self, DXF2000) THEN Raise(self, "DXFVersionError")
    ELSE
        LET def == self.image_def
            x_units_per_pixel == TrueDiv(size_in_units[1], def.image_size[1])
            y_units_per_pixel == TrueDiv(size_in_units[2], def.image_size[2])
            x_angle_rad == [deg |-> rotation, quarter |-> 0]
            y_angle_rad == [x_angle_rad EXCEPT !.quarter = @ + 1]
            attribs ==
                Put(Put(Put(Put(Put(DictOr(dxfattribs), "insert", Vector(insert)),
                    "u_pixel", to_vector(x_units_per_pixel, x_angle_rad)),
                    "v_pixel", to_vector(y_units_per_pixel, y_angle_rad)),
                    "image_def_handle", def.handle),
                    "image_size", def.image_size)
            e == new_entity(self, "IMAGE", attribs)
            reactor_handle == NextHandle(e.w)
            w1 == [Log(e.w, [fn |-> "add_image_def_reactor", handle |-> e.ret.handle])
                     EXCEPT !.objects = Append(@, [handle |-> reactor_handle,
                                                   image |-> e.ret.handle])]
            image == [e.ret EXCEPT !.dxf = With(@, "image_def_reactor_handle", reactor_handle)]
            w2 == [w1 EXCEPT !.image_def = append_reactor_handle(@, reactor_handle)]
        IN  IF def.image_size[1] = 0 \/ def.image_size[2] = 0
            THEN Raise(self, "ZeroDivisionError")
            ELSE IF e.err # "" THEN e ELSE Ok(w2, image)

add_underlay(self, insert, scale, rotation, dxfattribs) ==
    IF VersionBelow(self, DXF2000) THEN Raise(self, "DXFVersionError")
    ELSE
        LET def == self.underlay_def
            attribs ==
                Put(Put(Put(DictOr(dxfattribs), "insert", insert),
                    "underlay_def_handle", def.handle), "rotation", rotation)
            e == new_entity(self, def.entity_name, attribs)
            w1 == setattr(e.w, e.ret, "scaling", scale)
            w2 == [w1 EXCEPT !.underlay_def = append_reactor_handle(@, e.ret.handle)]
        IN  IF e.err # "" THEN e ELSE Ok(w2, e.ret)

(************************ dimensions **************************************)
\* Dimension type flags of ezdxf.lldxf.const.
DIM_LINEAR == 0
DIM_ANGULAR == 2
DIM_DIAMETER == 3
DIM_RADIUS == 4
DIM_ANGULAR_3P == 5
DIM_ORDINATE == 6
DIM_BLOCK_EXCLUSIVE == 32

\* a | b on non-negative integers
RECURSIVE BitOr(_, _)
BitOr(a, b) ==
    IF a = 0 THEN b
    ELSE IF b = 0 THEN a
    ELSE (IF a % 2 = 1 \/ b % 2 = 1 THEN 1 ELSE 0) + 2 * BitOr(a \div 2, b \div 2)

\* ezdxf.math.Vector: subtraction, the perpendicular in the xy-plane, the
\* length, scaling to a length, and the direction angle in degrees.  Lengths
\* and angles are exact on the vectors used here: their length is a whole
\* number and they lie along an axis.
Sub(a, b) == <<a[1] - b[1], a[2] - b[2], a[3] - b[3]>>
Neg(v) == <<-v[1], -v[2], -v[3]>>
orthogonal(v) == <<-v[2], v[1], 0>>
ISqrt(n) == CHOOSE r \in 0..n : r * r <= n /\ (r + 1) * (r + 1) > n
magnitude(v) == ISqrt(v[1] * v[1] + v[2] * v[2] + v[3] * v[3])
\* v * (length / magnitude): ZeroDivisionError for the null vector
normalize(v, length) ==
    IF magnitude(v) = 0 THEN [err |-> "ZeroDivisionError"]
    ELSE [err |-> "",
          v |-> <<(v[1] * length) \div magnitude(v), (v[2] * length) \div magnitude(v),
                  (v[3] * length) \div magnitude(v)>>]
\* math.degrees(math.atan2(y, x))
angle_deg(v) ==
    CASE v[2] = 0 /\ v[1] >= 0 -> 0
      [] v[2] = 0 /\ v[1] < 0 -> 180
      [] v[1] = 0 /\ v[2] > 0 -> 90
      [] v[1] = 0 /\ v[2] < 0 -> -90

\* float(x): the same number
Float(x) == x

\* dimline.update_dxf_attribs(dxfattribs): sets every given attribute of the entity
update_dxf_attribs(entity, dxfattribs) == [entity EXCEPT !.dxf = Update(@, dxfattribs)]

\* DimStyleOverride(dimline, override=override)
DimStyleOverride(w, dimline, override) ==
    Ok(Log(w, [fn |-> "DimStyleOverride", handle |-> dimline.handle, override |-> override]),
       [dimline |-> dimline, override |-> override])

\* style.set_location(location, leader=False, relative=False)
set_location(w, style, location, leader, relative) ==
    Log(w, [fn |-> "set_location", handle |-> style.dimline.handle, location |-> location,
            leader |-> leader, relative |-> relative])

\* The attributes add_linear_dim assigns to the DIMENSION entity.
LinearAttribs_mutant_truthy(base, p1, p2, text, angle, text_rotation, dimstyle, dxfattribs) ==
    LET a == Put(Put(Put(Put(Put(Put(DictOr(dxfattribs), "dimstyle", dimstyle),
                 "defpoint", Vector(base)), "text", text), "defpoint2", Vector(p1)),
                 "defpoint3", Vector(p2)), "angle", Float(angle))
    IN  IF ~IsNone(text_rotation) /\ text_rotation[1] # 0
        THEN Put(a, "text_rotation", Float(text_rotation[1]))
        ELSE a

LinearAttribs(base, p1, p2, text, angle, text_rotation, dimstyle, dxfattribs) ==
    LET a == Put(Put(Put(Put(Put(Put(DictOr(dxfattribs), "dimstyle", dimstyle),
                 "defpoint", Vector(base)), "text", text), "defpoint2", Vector(p1)),
                 "defpoint3", Vector(p2)), "angle", Float(angle))
    IN  IF ~IsNone(text_rotation)
        THEN Put(a, "text_rotation", Float(text_rotation[1]))
        ELSE a

\* style = DimStyleOverride(dimline, override); if location is not None: set_location
StyleOf_mutant_render(w, dimline, override, location) ==
    LET s == DimStyleOverride(w, dimline, override)
    IN  Ok(callmethod(s.w, dimline, "render", EmptyDict), s.ret)

StyleOf(w, dimline, override, location) ==
    LET s == DimStyleOverride(w, dimline, override)
    IN  IF ~IsNone(location)
        THEN Ok(set_location(s.w, s.ret, location[1], FALSE, FALSE), s.ret)
        ELSE s

add_linear_dim(self, base, p1, p2, location, text, angle, text_rotation, dimstyle, override, dxfattribs) ==
    LET type_ == Local([dimtype |-> BitOr(DIM_LINEAR, DIM_BLOCK_EXCLUSIVE)])
        e == new_entity(self, "DIMENSION", type_)
        attribs == LinearAttribs(base, p1, p2, text, angle, text_rotation, dimstyle, dxfattribs)
        w1 == callmethod(Handed(e.w, attribs), e.ret, "update_dxf_attribs",
                         [dxfattribs |-> attribs.d])
        dimline == update_dxf_attribs(e.ret, attribs.d)
    IN  IF e.err # "" THEN e
        ELSE StyleOf(w1, dimline, override, location)

add_aligned_dim_mutant_text_rotation(self, p1, p2, distance, text, dimstyle, override, dxfattribs) ==
    LET direction == Sub(Vector(p2), Vector(p1))
        angle == angle_deg(direction)
        base == normalize(orthogonal(direction), distance)
    IN  IF base.err # "" THEN Raise(self, base.err)
        ELSE add_linear_dim(self, base.v, Vector(p1), Vector(p2), None, text, angle,
                            Some(angle), dimstyle, override, dxfattribs)

add_aligned_dim_mutant_from_p1(self, p1, p2, distance, text, dimstyle, override, dxfattribs) ==
    LET direction == Sub(Vector(p2), Vector(p1))
        angle == angle_deg(direction)
        base == normalize(orthogonal(direction), distance)
    IN  IF base.err # "" THEN Raise(self, base.err)
        ELSE add_linear_dim(self, Sub(base.v, Neg(Vector(p1))), Vector(p1), Vector(p2), None,
                            text, angle, None, dimstyle, override, dxfattribs)

add_aligned_dim(self, p1, p2, distance, text, dimstyle, override, dxfattribs) ==
    LET direction == Sub(Vector(p2), Vector(p1))
        angle == angle_deg(direction)
        base == normalize(orthogonal(direction), distance)
    IN  IF base.err # "" THEN Raise(self, base.err)
        ELSE add_linear_dim(self, base.v, Vector(p1), Vector(p2), None, text, angle, None,
                            dimstyle, override, dxfattribs)

\* add_angular_dim, add_diameter_dim, add_radius_dim, add_angular_3p_dim and
\* add_ordinate_dim share one body and differ in the type flag.
TypedDim(self, dimtype, override, dxfattribs) ==
    LET type_ == Local([dimtype |-> BitOr(dimtype, DIM_BLOCK_EXCLUSIVE)])
        e == new_entity(self, "DIMENSION", type_)
        w1 == callmethod(e.w, e.ret, "cast", EmptyDict)
        attribs == DictOr(dxfattribs)
        w2 == callmethod(Handed(w1, attribs), e.ret, "update_dxf_attribs",
                         [dxfattribs |-> attribs.d])
        dimline == update_dxf_attribs(e.ret, attribs.d)
    IN  IF e.err # "" THEN e
        ELSE DimStyleOverride(w2, dimline, override)

add_angular_dim(self, override, dxfattribs) == TypedDim(self, DIM_ANGULAR, override, dxfattribs)
add_diameter_dim(self, override, dxfattribs) == TypedDim(self, DIM_DIAMETER, override, dxfattribs)
add_radius_dim(self, override, dxfattribs) == TypedDim(self, DIM_RADIUS, override, dxfattribs)
add_angular_3p_dim(self, override, dxfattribs) == TypedDim(self, DIM_ANGULAR_3P, override, dxfattribs)
add_ordinate_dim(self, override, dxfattribs) == TypedDim(self, DIM_ORDINATE, override, dxfattribs)

(************************ spline control frames ****************************)
\* ezdxf.math.bspline_control_frame and bspline_control_frame_approx: the
\* control frame of a B-spline through (near) the fit points.  Parameters and
\* knot values are ratios <<numerator, denominator>>.  The control points are
\* the solution of a linear system; they are named, not computed: control
\* point i of the frame.
Methods == {"uniform", "distance", "centripetal"}
RatLess(a, b) == a[1] * b[2] < b[1] * a[2]
RatEq(a, b) == a[1] * b[2] = b[1] * a[2]

RECURSIVE SumTo(_, _)
SumTo(seq, n) == IF n = 0 THEN 0 ELSE seq[n] + SumTo(seq, n - 1)

\* Vector(p1).distance(p2), exact where the distance is a whole number
vector_distance(p1, p2) == magnitude(Sub(Vector(p2), Vector(p1)))
\* pow(x, power) for the powers 1 and 1/2, exact on the perfect squares
pow(x, power) == IF power = <<1, 1>> THEN x ELSE ISqrt(x)

\* t_i = i / n
uniform_t_vector(fit_points) ==
    LET n == Len(fit_points) - 1
    IN  IF n = 0 THEN [err |-> "ZeroDivisionError"]
        ELSE [err |-> "", t |-> [i \in 1..Len(fit_points) |-> <<i - 1, n>>]]

\* t_i = (sum of the first i chord lengths ^ power) / (sum of all of them)
centripetal_t_vector(fit_points, power) ==
    LET distances == [i \in 1..(Len(fit_points) - 1) |->
                         pow(vector_distance(fit_points[i], fit_points[i + 1]), power)]
        total_length == SumTo(distances, Len(distances))
    IN  IF total_length = 0 THEN [err |-> "ZeroDivisionError"]
        ELSE [err |-> "",
              t |-> [i \in 1..Len(fit_points) |-> <<SumTo(distances, i - 1), total_length>>]]

distance_t_vector(fit_points) == centripetal_t_vector(fit_points, <<1, 1>>)

create_t_vector(fit_points, method, power) ==
    CASE method = "uniform" -> uniform_t_vector(fit_points)
      [] method = "distance" -> distance_t_vector(fit_points)
      [] method = "centripetal" -> centripetal_t_vector(fit_points, power)
      [] OTHER -> [err |-> "DXFValueError"]

\* The clamped knot vector of the frame over the parameters t_0..t_n: t_0 and
\* t_n each order times, between them the means of p consecutive parameters.
Repeat(x, k) == [i \in 1..k |-> x]
RECURSIVE SumNum(_, _, _)
SumNum(t, from, to) == IF from > to THEN 0 ELSE t[from][1] + SumNum(t, from + 1, to)

control_frame_knots_mutant_short_clamp(n, p, t_vector) ==
    LET order == p + 1
        inner == [j \in 1..(n - p) |-> <<SumNum(t_vector, j + 1, j + p), t_vector[1][2] * p>>]
    IN  Repeat(t_vector[1], p) \o inner \o Repeat(t_vector[n + 1], order)

control_frame_knots(n, p, t_vector) ==
    LET order == p + 1
        inner == [j \in 1..(n - p) |-> <<SumNum(t_vector, j + 1, j + p), t_vector[1][2] * p>>]
    IN  Repeat(t_vector[1], order) \o inner \o Repeat(t_vector[n + 1], order)

ControlPoints(count) == [i \in 1..count |-> [control_point |-> i]]

\* The open frame through the fit points: it fails for fewer than 2 fit points
\* and for a method name that is not known, and for nothing else; the frame
\* has one control point per fit point and the clamped knots over the
\* parameters, whatever the degree.
bspline_control_frame_mutant_any_method(fit_points, degree, method, power) ==
    LET count == Len(fit_points)
        t == uniform_t_vector(fit_points)
    IN  IF count < 2 THEN [err |-> "DXFValueError"]
        ELSE [err |-> "",
              bspline |-> [control_points |-> ControlPoints(count), degree |-> degree,
                           knots |-> control_frame_knots(count - 1, degree, t.t),
                           t_array |-> t.t]]

bspline_control_frame(fit_points, degree, method, power) ==
    LET count == Len(fit_points)
        t == create_t_vector(fit_points, method, power)
    IN  IF count < 2 THEN [err |-> "DXFValueError"]
        ELSE IF t.err # "" THEN [err |-> t.err]
        ELSE [err |-> "",
              bspline |-> [control_points |-> ControlPoints(count), degree |-> degree,
                           knots |-> control_frame_knots(count - 1, degree, t.t),
                           t_array |-> t.t]]

bspline_control_frame_approx(fit_points, count, degree, method, power) ==
    LET t == create_t_vector(fit_points, method, power)
    IN  IF Len(fit_points) < 2 \/ degree + 1 > count \/ count > Len(fit_points)
        THEN [err |-> "DXFValueError"]
        ELSE IF t.err # "" THEN [err |-> t.err]
        ELSE [err |-> "",
              bspline |-> [control_points |-> ControlPoints(count), degree |-> degree,
                           knots |-> open_uniform_knot_vector(count, degree + 1),
                           t_array |-> t.t]]

add_spline_control_frame(self, fit_points, degree, method, power, dxfattribs) ==
    LET f == bspline_control_frame(fit_points, degree, method, power)
    IN  IF f.err # "" THEN Raise(self, f.err)
        ELSE add_open_spline(self, f.bspline.control_points, f.bspline.degree,
                             Some(f.bspline.knots), dxfattribs)

add_spline_approx(self, fit_points, count, degree, method, power, dxfattribs) ==
    LET f == bspline_control_frame_approx(fit_points, count, degree, method, power)
    IN  IF f.err # "" THEN Raise(self, f.err)
        ELSE add_open_spline(self, f.bspline.control_points, f.bspline.degree,
                             None, dxfattribs)

(************************ entities of every version ************************)
add_point(self, location, dxfattribs) ==
    new_entity(self, "POINT", Put(DictOr(dxfattribs), "location", location))

add_line(self, start, end, dxfattribs) ==
    new_entity(self, "LINE", Put(Put(DictOr(dxfattribs), "start", start), "end", end))

add_circle(self, center, radius, dxfattribs) ==
    new_entity(self, "CIRCLE", Put(Put(DictOr(dxfattribs), "center", center), "radius", radius))

add_arc(self, center, radius, start_angle, end_angle, is_counter_clockwise, dxfattribs) ==
    LET a == Put(Put(DictOr(dxfattribs), "center", center), "radius", radius)
    IN  IF is_counter_clockwise
        THEN new_entity(self, "ARC", Put(Put(a, "start_angle", start_angle), "end_angle", end_angle))
        ELSE new_entity(self, "ARC", Put(Put(a, "start_angle", end_angle), "end_angle", start_angle))

\* dict.setdefault(k, v): v is stored only when the key is absent
SetDefault(o, k, v) == IF k \in DOMAIN o.d THEN o ELSE Put(o, k, v)

\* Vector(): the origin
Origin == <<0, 0, 0>>

add_text(self, text, dxfattribs) ==
    new_entity(self, "TEXT", SetDefault(Put(DictOr(dxfattribs), "text", text), "insert", Origin))

add_blockref(self, name, insert, dxfattribs) ==
    new_entity(self, "INSERT", Put(Put(DictOr(dxfattribs), "name", name), "insert", insert))

add_attrib(self, tag, text, insert, dxfattribs) ==
    new_entity(self, "ATTRIB",
        Put(Put(Put(DictOr(dxfattribs), "tag", tag), "text", text), "insert", insert))

add_shape(self, name, insert, size, dxfattribs) ==
    new_entity(self, "SHAPE",
        Put(Put(Put(DictOr(dxfattribs), "name", name), "insert", insert), "size", size))

(************************ polylines ****************************************)
\* Kind bits of the POLYLINE flags, ezdxf.lldxf.const.
POLYLINE_3D_POLYLINE == 8
POLYLINE_3D_POLYMESH == 16
POLYLINE_POLYFACE == 64

add_polyline2d(self, points, dxfattribs) ==
    LET attribs == DictOr(dxfattribs)
        closed == Get(attribs, "closed", FALSE)
        e == new_entity(self, "POLYLINE", Pop(attribs, "closed"))
        w1 == callmethod(e.w, e.ret, "close", <<closed>>)
        w2 == callmethod(w1, e.ret, "append_vertices", <<points>>)
    IN  IF e.err # "" THEN e ELSE Ok(w2, e.ret)

\* dxfattribs['flags'] = dxfattribs.get('flags', 0) | bit
WithKindBit_mutant_overwrite(attribs, bit) == Put(attribs, "flags", bit)
WithKindBit(attribs, bit) == Put(attribs, "flags", BitOr(Get(attribs, "flags", 0), bit))

add_polyline3d(self, points, dxfattribs) ==
    add_polyline2d(self, points, Some(WithKindBit(DictOr(dxfattribs), POLYLINE_3D_POLYLINE)))

Max(a, b) == IF a >= b THEN a ELSE b

add_polymesh_mutant_clamp_one(self, size, dxfattribs) ==
    LET a1 == WithKindBit(DictOr(dxfattribs), POLYLINE_3D_POLYMESH)
        m_size == Max(size[1], 1)
        n_size == Max(size[2], 1)
        a2 == Put(Put(a1, "m_count", m_size), "n_count", n_size)
        m_close == Get(a2, "m_close", FALSE)
        n_close == Get(a2, "n_close", FALSE)
        e == new_entity(self, "POLYLINE", Pop(Pop(a2, "m_close"), "n_close"))
        points == [i \in 1..(m_size * n_size) |-> <<0, 0, 0>>]
        w1 == callmethod(e.w, e.ret, "append_vertices", <<points>>)
        w2 == callmethod(w1, e.ret, "close", <<m_close, n_close>>)
        w3 == callmethod(w2, e.ret, "cast", EmptyDict)
    IN  IF e.err # "" THEN e ELSE Ok(w3, e.ret)

add_polymesh(self, size, dxfattribs) ==
    LET a1 == WithKindBit(DictOr(dxfattribs), POLYLINE_3D_POLYMESH)
        m_size == Max(size[1], 2)
        n_size == Max(size[2], 2)
        a2 == Put(Put(a1, "m_count", m_size), "n_count", n_size)
        m_close == Get(a2, "m_close", FALSE)
        n_close == Get(a2, "n_close", FALSE)
        e == new_entity(self, "POLYLINE", Pop(Pop(a2, "m_close"), "n_close"))
        points == [i \in 1..(m_size * n_size) |-> <<0, 0, 0>>]
        w1 == callmethod(e.w, e.ret, "append_vertices", <<points>>)
        w2 == callmethod(w1, e.ret, "close", <<m_close, n_close>>)
        w3 == callmethod(w2, e.ret, "cast", EmptyDict)
    IN  IF e.err # "" THEN e ELSE Ok(w3, e.ret)

add_polyface(self, dxfattribs) ==
    LET a1 == WithKindBit(DictOr(dxfattribs), POLYLINE_POLYFACE)
        m_close == Get(a1, "m_close", FALSE)
        n_close == Get(a1, "n_close", FALSE)
        e == new_entity(self, "POLYLINE", Pop(Pop(a1, "m_close"), "n_close"))
        w1 == callmethod(e.w, e.ret, "close", <<m_close, n_close>>)
        w2 == callmethod(w1, e.ret, "cast", EmptyDict)
    IN  IF e.err # "" THEN e ELSE Ok(w2, e.ret)

(************************ block references with attributes *****************)
\* doc.blocks.new_anonymous_block(): a new, empty block layout under the next
\* free anonymous name.
AnonymousNames == <<"*U1", "*U2", "*U3">>
AnonymousCount(b) == Cardinality({i \in 1..Len(AnonymousNames) : AnonymousNames[i] \in DOMAIN b})
new_anonymous_block(w) ==
    LET name == AnonymousNames[AnonymousCount(w.blocks) + 1]
        w1 == Log(w, [fn |-> "new_anonymous_block", name |-> name])
    IN  Ok([w1 EXCEPT !.blocks = With(@, name, [attdefs |-> <<>>, space |-> <<>>])],
           [name |-> name])

\* doc.blocks[name]
getblock(w, name) ==
    IF name \in DOMAIN w.blocks THEN Ok(w, [name |-> name, attdefs |-> w.blocks[name].attdefs])
    ELSE Raise(w, "DXFKeyError")

\* blockref.add_attrib(tag, text, insert, dxfattribs) of the Insert entity
insert_add_attrib(w, blockref, tag, text, insert, dxfattribs) ==
    Log(Handed(w, dxfattribs),
        [fn |-> "add_attrib", handle |-> blockref.handle, tag |-> tag, text |-> text,
         insert |-> insert, dxfattribs |-> dxfattribs.d])

\* attdef.dxfattribs() is a new dict with the placeholder's attributes
get_dxfattribs_mutant_keep_handle(attdef) == Pop(Local(attdef.dxf), "prompt")
get_dxfattribs(attdef) == Pop(Pop(Local(attdef.dxf), "prompt"), "handle")

\* dxfattribs.pop(k) raises KeyError for a missing key
unpack_mutant_default_tag(dxfattribs, values) ==
    IF "tag" \notin DOMAIN dxfattribs.d \/ "insert" \notin DOMAIN dxfattribs.d
    THEN [err |-> "KeyError"]
    ELSE [err |-> "", tag |-> dxfattribs.d["tag"],
          text |-> Lookup(values, dxfattribs.d["tag"], dxfattribs.d["tag"]),
          insert |-> dxfattribs.d["insert"], dxfattribs |-> Pop(Pop(dxfattribs, "tag"), "insert")]

unpack(dxfattribs, values) ==
    IF "tag" \notin DOMAIN dxfattribs.d \/ "insert" \notin DOMAIN dxfattribs.d
    THEN [err |-> "KeyError"]
    ELSE [err |-> "", tag |-> dxfattribs.d["tag"],
          text |-> Lookup(values, dxfattribs.d["tag"], ""),
          insert |-> dxfattribs.d["insert"], dxfattribs |-> Pop(Pop(dxfattribs, "tag"), "insert")]

\* for attdef in blockdef.attdefs(): blockref.add_attrib(...)
RECURSIVE autofill(_, _, _, _)
autofill(w, blockref, attdefs, values) ==
    IF attdefs = <<>> THEN Ok(w, NoRet)
    ELSE LET u == unpack(get_dxfattribs(Head(attdefs)), values)
         IN  IF u.err # "" THEN Raise(w, u.err)
             ELSE autofill(insert_add_attrib(w, blockref, u.tag, u.text, u.insert, u.dxfattribs),
                           blockref, Tail(attdefs), values)

add_auto_blockref(self, name, insert, values, dxfattribs) ==
    LET attribs == DictOr(dxfattribs)
        autoblock == new_anonymous_block(self)
        inner == add_blockref([autoblock.w EXCEPT !.layout = autoblock.ret.name], name,
                              <<0, 0>>, None)
        w1 == [inner.w EXCEPT !.layout = self.layout]
        blockdef == getblock(w1, name)
        filled == autofill(w1, inner.ret, blockdef.ret.attdefs, values)
    IN  IF inner.err # "" THEN Raise(w1, inner.err)
        ELSE IF blockdef.err # "" THEN blockdef
        ELSE IF filled.err # "" THEN filled
        ELSE add_blockref(filled.w, autoblock.ret.name, insert, Some(attribs))

(************************ rendering collaborators **************************)
\* A caller's dxfattribs, None or a dict object, reaches a collaborator.
HandedOver(w, dxfattribs) == IF IsNone(dxfattribs) THEN w ELSE Handed(w, dxfattribs[1])
\* dxfattribs or {}: the argument itself, a new dict when it is None or empty.
OrEmpty(dxfattribs) ==
    IF IsNone(dxfattribs) \/ DOMAIN dxfattribs[1].d = {} THEN Local(EmptyDict)
    ELSE dxfattribs[1]

\* multi_point_linear_dimension(layout, base, points, ...) of
\* ezdxf.render.dimension: for each pair of consecutive points, the points
\* taken in the order along the dimension line, one linear dimension is added
\* to the layout with layout.add_linear_dim and rendered at once.
RECURSIVE multi_point_linear_dimension(_, _, _, _, _, _, _, _, _)
multi_point_linear_dimension(layout, base, points, angle, ucs, dimstyle, override, dxfattribs, discard) ==
    IF Len(points) < 2 THEN Ok(layout, None)
    ELSE
        LET style == add_linear_dim(layout, base, points[1], points[2], None, "<>", angle,
                                    None, dimstyle, override, dxfattribs)
            w1 == callmethod(style.w, style.ret.dimline, "render",
                             [ucs |-> ucs, discard |-> discard])
        IN  IF style.err # "" THEN Raise(style.w, style.err)
            ELSE multi_point_linear_dimension(w1, base, Tail(points), angle, ucs, dimstyle,
                                              override, dxfattribs, discard)

add_multi_point_linear_dim(self, base, points, angle, ucs, avoid_double_rendering, dimstyle, override, dxfattribs, discard) ==
    multi_point_linear_dimension(
        Log(HandedOver(self, dxfattribs),
            [fn |-> "multi_point_linear_dimension", base |-> base, points |-> points,
             angle |-> angle, ucs |-> ucs, avoid_double_rendering |-> avoid_double_rendering,
             dimstyle |-> dimstyle, override |-> override, discard |-> discard,
             dxfattribs |-> IF IsNone(dxfattribs) THEN None ELSE Some(dxfattribs[1].d)]),
        base, points, angle, ucs, dimstyle, override, dxfattribs, discard)

\* The arrow-symbol collaborator ARROWS of ezdxf.render.arrows.  The vector
\* both calls return is the point where a line connects to the arrow.
connection_point(name, insert, size, rotation) ==
    [connection_point |-> [name |-> name, insert |-> insert, size |-> size,
                           rotation |-> rotation]]

\* The outline of the arrow, as the vertices of a closed polyline.
ArrowShape(name, insert, size, rotation) ==
    [i \in 1..3 |-> [arrow |-> name, vertex |-> i, insert |-> insert, size |-> size,
                     rotation |-> rotation]]

\* ARROWS.render_arrow(layout, name, insert, size, rotation, dxfattribs): the
\* arrow as inline geometry, a closed polyline added to the layout with the
\* layout's own factory (an LWPOLYLINE where the version permits it).
render_arrow(layout, name, insert, size, rotation, dxfattribs) ==
    LET w1 == Log(HandedOver(layout, dxfattribs),
                  [fn |-> "render_arrow", name |-> name, insert |-> insert, size |-> size,
                   rotation |-> rotation])
        points == ArrowShape(name, insert, size, rotation)
        polyline == IF VersionBelow(w1, DXF2000)
                    THEN add_polyline2d(w1, points, dxfattribs)
                    ELSE add_lwpolyline(w1, points, "xy", dxfattribs)
        w2 == callmethod(polyline.w, polyline.ret, "close", <<TRUE>>)
    IN  IF polyline.err # "" THEN polyline
        ELSE Ok(w2, connection_point(name, insert, size, rotation))

\* The block of the arrow symbol in the block table.
ArrowBlockName(name) ==
    CASE name = "CLOSED" -> "_CLOSED" [] name = "DOT" -> "_DOT" [] name = "OPEN" -> "_OPEN"

\* ARROWS.insert_arrow(layout, name, insert, size, rotation, dxfattribs): the
\* arrow as a block reference; the block of the symbol is created in the
\* block table when it is not there yet, and the reference is added to the
\* layout with layout.add_blockref, scaled and rotated.  The collaborator
\* writes the rotation and the scale into a mapping; whether that is a copy
\* of the dxfattribs it was handed or the handed mapping itself is the
\* collaborator's choice (layout.copies), the factory hands over the object
\* of its caller.
insert_arrow(layout, name, insert, size, rotation, dxfattribs) ==
    LET block_name == ArrowBlockName(name)
        mapping == IF layout.copies THEN DictOr(dxfattribs) ELSE OrEmpty(dxfattribs)
        attribs == Put(Put(Put(mapping, "rotation", rotation), "xscale", size),
                       "yscale", size)
        w1 == Log(Handed(HandedOver(layout, dxfattribs), attribs),
                  [fn |-> "insert_arrow", name |-> name, insert |-> insert, size |-> size,
                   rotation |-> rotation])
        w2 == IF block_name \in DOMAIN w1.blocks THEN w1
              ELSE [w1 EXCEPT !.blocks = With(@, block_name, [attdefs |-> <<>>, space |-> <<>>])]
        blockref == add_blockref(w2, block_name, insert, Some(attribs))
    IN  IF blockref.err # "" THEN blockref
        ELSE Ok(blockref.w, connection_point(name, insert, size, rotation))

add_arrow(self, name, insert, size, rotation, dxfattribs) ==
    render_arrow(self, name, insert, size, rotation, dxfattribs)

add_arrow_blockref(self, name, insert, size, rotation, dxfattribs) ==
    insert_arrow(self, name, insert, size, rotation, dxfattribs)

(************************ the application **********************************)
\* The document as a factory call finds it; dbok tells whether the entity
\* database accepts creation requests during the call, copies whether the
\* arrow collaborator writes into a copy of the mapping it is handed.
Self(dbok) ==
    [dxfversion |-> dxfversion, db |-> db, space |-> space, objects |-> objects,
     image_def |-> image_def, underlay_def |-> underlay_def, blocks |-> blocks,
     layout |-> Modelspace, inplace |-> None, calls |-> <<>>, dbok |-> dbok,
     copies |-> TRUE]

\* A factory call returns or raises: the document and the call record change.
Return(op, args, out) ==
    /\ db' = out.w.db
    /\ space' = out.w.space
    /\ objects' = out.w.objects
    /\ image_def' = out.w.image_def
    /\ underlay_def' = out.w.underlay_def
    /\ blocks' = out.w.blocks
    /\ result' = [op |-> op, args |-> args, dbok |-> out.w.dbok, err |-> out.err,
                  ret |-> out.ret, calls |-> out.w.calls,
                  given |-> IF IsNone(out.w.inplace) THEN args.dxfattribs ELSE out.w.inplace]
    /\ UNCHANGED dxfversion

\* No call is in progress and the application holds no call record.
NoCall ==
    [op |-> "", args |-> EmptyDict, dbok |-> TRUE, err |-> "", ret |-> NoRet, calls |-> <<>>,
     given |-> None]
Room == result = NoCall /\ Len(db) < MaxEntities

\* Arguments the application passes.
Pt(i) == <<i, i * i, 0>>
PointLists == {[i \in 1..n |-> Pt(i)] : n \in 0..MaxPoints}
CommonAttribs == {None, Some(EmptyDict), Some([layer |-> "WALLS"])}

AddSolid ==
    \E points \in PointLists, dxfattribs \in CommonAttribs, dbok \in BOOLEAN :
        /\ Room
        /\ Return("add_solid", [points |-> points, dxfattribs |-> dxfattribs],
                  add_solid(Self(dbok), points, Caller(dxfattribs)))

AddTrace ==
    \E points \in PointLists, dxfattribs \in CommonAttribs, dbok \in BOOLEAN :
        /\ Room
        /\ Return("add_trace", [points |-> points, dxfattribs |-> dxfattribs],
                  add_trace(Self(dbok), points, Caller(dxfattribs)))

Add3dface ==
    \E points \in PointLists, dxfattribs \in CommonAttribs, dbok \in BOOLEAN :
        /\ Room
        /\ Return("add_3dface", [points |-> points, dxfattribs |-> dxfattribs],
                  add_3dface(Self(dbok), points, Caller(dxfattribs)))

\* ---- operations gated at R2000 ----
Ratios == {<<1, 2>>, <<1, 1>>, <<11, 10>>, <<2, 1>>}
EllipseAttribs == CommonAttribs \cup {Some([ratio |-> <<3, 1>>])}
AddEllipse ==
    \E center \in {<<0, 0>>, <<1, 2, 3>>}, ratio \in Ratios,
       dxfattribs \in EllipseAttribs, dbok \in BOOLEAN :
        /\ Room
        /\ Return("add_ellipse",
                  [center |-> center, major_axis |-> <<1, 0, 0>>, ratio |-> ratio,
                   start_param |-> 0, end_param |-> 6, dxfattribs |-> dxfattribs],
                  add_ellipse(Self(dbok), center, <<1, 0, 0>>, ratio, 0, 6, Caller(dxfattribs)))

ClosedAttribs == {None, Some([layer |-> "WALLS"]), Some([closed |-> TRUE])}
AddLwpolyline ==
    \E points \in {<<>>, <<<<0, 0>>, <<3, 0>>, <<3, 4>>>>},
       dxfattribs \in ClosedAttribs, dbok \in BOOLEAN :
        /\ Room
        /\ Return("add_lwpolyline",
                  [points |-> points, format |-> "xyseb", dxfattribs |-> dxfattribs],
                  add_lwpolyline(Self(dbok), points, "xyseb", Caller(dxfattribs)))

AddMtext ==
    \E text \in {"", "note"}, dxfattribs \in CommonAttribs, dbok \in BOOLEAN :
        /\ Room
        /\ Return("add_mtext", [text |-> text, dxfattribs |-> dxfattribs],
                  add_mtext(Self(dbok), text, Caller(dxfattribs)))

AddRay ==
    \E start \in {<<0, 0, 0>>, <<1, 2, 3>>}, dxfattribs \in CommonAttribs, dbok \in BOOLEAN :
        /\ Room
        /\ Return("add_ray",
                  [start |-> start, unit_vector |-> <<1, 0, 0>>, dxfattribs |-> dxfattribs],
                  add_ray(Self(dbok), start, <<1, 0, 0>>, Caller(dxfattribs)))

AddXline ==
    \E start \in {<<0, 0, 0>>, <<1, 2, 3>>}, dxfattribs \in CommonAttribs, dbok \in BOOLEAN :
        /\ Room
        /\ Return("add_xline",
                  [start |-> start, unit_vector |-> <<0, 1, 0>>, dxfattribs |-> dxfattribs],
                  add_xline(Self(dbok), start, <<0, 1, 0>>, Caller(dxfattribs)))

FitPointLists == {[i \in 1..n |-> Pt(i)] : n \in {1, MaxPoints - 1}}
Degrees == {2, 3}
SplineAttribs == {None, Some([layer |-> "WALLS", degree |-> 5])}
AddSpline ==
    \E fit_points \in {None} \cup {Some(f) : f \in FitPointLists}, degree \in Degrees,
       dxfattribs \in SplineAttribs, dbok \in BOOLEAN :
        /\ Room
        /\ Return("add_spline",
                  [fit_points |-> fit_points, degree |-> degree, dxfattribs |-> dxfattribs],
                  add_spline(Self(dbok), fit_points, degree, Caller(dxfattribs)))

\* Fit points for the control frames: one point; two coincident points; four
\* points with the chords 1, 4, 9; four points of which the first two
\* coincide, with the chords 0, 4, 9.
FrameFitPoints ==
    {<<<<0, 0, 0>>>>,
     <<<<1, 1>>, <<1, 1>>>>,
     <<<<0, 0>>, <<3, 4>>>>,
     <<<<0, 0>>, <<1, 0>>, <<5, 0>>, <<14, 0>>>>,
     <<<<0, 0>>, <<0, 0>>, <<4, 0>>, <<4, 9>>>>}
FrameDegrees == {1, 2, 3}
MethodNames == Methods \cup {"bezier"}
Power == <<1, 2>>
AddSplineControlFrame ==
    \E fit_points \in FrameFitPoints, degree \in FrameDegrees, method \in MethodNames,
       dxfattribs \in SplineAttribs, dbok \in BOOLEAN :
        /\ Room
        /\ Return("add_spline_control_frame",
                  [fit_points |-> fit_points, degree |-> degree, method |-> method,
                   power |-> Power, dxfattribs |-> dxfattribs],
                  add_spline_control_frame(Self(dbok), fit_points, degree, method, Power,
                                           Caller(dxfattribs)))

AddSplineApprox ==
    \E fit_points \in FrameFitPoints, count \in {3, 4}, degree \in FrameDegrees,
       method \in MethodNames, dxfattribs \in SplineAttribs, dbok \in BOOLEAN :
        /\ Room
        /\ Return("add_spline_approx",
                  [fit_points |-> fit_points, count |-> count, degree |-> degree,
                   method |-> method, power |-> Power, dxfattribs |-> dxfattribs],
                  add_spline_approx(Self(dbok), fit_points, count, degree, method, Power,
                                    Caller(dxfattribs)))

ControlPointLists == {[i \in 1..n |-> Pt(i)] : n \in {MaxPoints - 2, MaxPoints - 1}}
KnotArgs == {None, Some(<<0, 0, 0, 1, 1, 1>>)}
WeightArgs == {<<1, 2, 1>>, <<1, 1, 1, 1>>}
AddOpenSpline ==
    \E control_points \in ControlPointLists, degree \in Degrees, knots \in KnotArgs,
       dxfattribs \in SplineAttribs, dbok \in BOOLEAN :
        /\ Room
        /\ Return("add_open_spline",
                  [control_points |-> control_points, degree |-> degree, knots |-> knots,
                   dxfattribs |-> dxfattribs],
                  add_open_spline(Self(dbok), control_points, degree, knots, Caller(dxfattribs)))

AddClosedSpline ==
    \E control_points \in ControlPointLists, degree \in Degrees, knots \in KnotArgs,
       dxfattribs \in SplineAttribs, dbok \in BOOLEAN :
        /\ Room
        /\ Return("add_closed_spline",
                  [control_points |-> control_points, degree |-> degree, knots |-> knots,
                   dxfattribs |-> dxfattribs],
                  add_closed_spline(Self(dbok), control_points, degree, knots, Caller(dxfattribs)))

AddRationalSpline ==
    \E control_points \in ControlPointLists, weights \in WeightArgs, degree \in Degrees,
       knots \in KnotArgs, dxfattribs \in SplineAttribs, dbok \in BOOLEAN :
        /\ Room
        /\ Return("add_rational_spline",
                  [control_points |-> control_points, weights |-> weights, degree |-> degree,
                   knots |-> knots, dxfattribs |-> dxfattribs],
                  add_rational_spline(Self(dbok), control_points, weights, degree, knots,
                                      Caller(dxfattribs)))

AddClosedRationalSpline ==
    \E control_points \in ControlPointLists, weights \in WeightArgs, degree \in Degrees,
       knots \in KnotArgs, dxfattribs \in SplineAttribs, dbok \in BOOLEAN :
        /\ Room
        /\ Return("add_closed_rational_spline",
                  [control_points |-> control_points, weights |-> weights, degree |-> degree,
                   knots |-> knots, dxfattribs |-> dxfattribs],
                  add_closed_rational_spline(Self(dbok), control_points, weights, degree,
                                             knots, Caller(dxfattribs)))

AcisArgs == {None, Some("400 0 1 0")}
AddBody ==
    \E acis_data \in AcisArgs, dxfattribs \in CommonAttribs, dbok \in BOOLEAN :
        /\ Room
        /\ Return("add_body", [acis_data |-> acis_data, dxfattribs |-> dxfattribs],
                  add_body(Self(dbok), acis_data, Caller(dxfattribs)))

AddRegion ==
    \E acis_data \in AcisArgs, dxfattribs \in CommonAttribs, dbok \in BOOLEAN :
        /\ Room
        /\ Return("add_region", [acis_data |-> acis_data, dxfattribs |-> dxfattribs],
                  add_region(Self(dbok), acis_data, Caller(dxfattribs)))

Add3dsolid ==
    \E acis_data \in AcisArgs, dxfattribs \in CommonAttribs, dbok \in BOOLEAN :
        /\ Room
        /\ Return("add_3dsolid", [acis_data |-> acis_data, dxfattribs |-> dxfattribs],
                  add_3dsolid(Self(dbok), acis_data, Caller(dxfattribs)))

HatchAttribs == {None, Some([layer |-> "WALLS"]), Some([solid_fill |-> 0, pattern_name |-> "ANSI31"])}
AddHatch ==
    \E color \in {7, 1}, dxfattribs \in HatchAttribs, dbok \in BOOLEAN :
        /\ Room
        /\ Return("add_hatch", [color |-> color, dxfattribs |-> dxfattribs],
                  add_hatch(Self(dbok), color, Caller(dxfattribs)))

AddMesh ==
    \E dxfattribs \in CommonAttribs, dbok \in BOOLEAN :
        /\ Room
        /\ Return("add_mesh", [dxfattribs |-> dxfattribs],
                  add_mesh(Self(dbok), Caller(dxfattribs)))

AddImage ==
    \E insert \in {<<0, 0>>, <<1, 2, 3>>}, size_in_units \in {<<8, 4>>, <<4, 4>>, <<3, 3>>},
       rotation \in {0, 45, 90, 270}, dxfattribs \in {None, Some([layer |-> "WALLS"])},
       dbok \in BOOLEAN :
        /\ Room
        /\ Return("add_image",
                  [insert |-> insert, size_in_units |-> size_in_units, rotation |-> rotation,
                   dxfattribs |-> dxfattribs],
                  add_image(Self(dbok), insert, size_in_units, rotation, Caller(dxfattribs)))

AddUnderlay ==
    \E insert \in {<<0, 0, 0>>, <<1, 2, 3>>}, scale \in {<<1, 1, 1>>, <<2, 2, 2>>},
       rotation \in {0, 90}, dxfattribs \in {None, Some([layer |-> "WALLS"])},
       dbok \in BOOLEAN :
        /\ Room
        /\ Return("add_underlay",
                  [insert |-> insert, scale |-> scale, rotation |-> rotation,
                   dxfattribs |-> dxfattribs],
                  add_underlay(Self(dbok), insert, scale, rotation, Caller(dxfattribs)))

\* ---- the surface family, gated at R2007 ----
AddSurface ==
    \E acis_data \in AcisArgs, dxfattribs \in CommonAttribs, dbok \in BOOLEAN :
        /\ Room
        /\ Return("add_surface", [acis_data |-> acis_data, dxfattribs |-> dxfattribs],
                  add_surface(Self(dbok), acis_data, Caller(dxfattribs)))

AddExtrudedSurface ==
    \E acis_data \in AcisArgs, dxfattribs \in CommonAttribs, dbok \in BOOLEAN :
        /\ Room
        /\ Return("add_extruded_surface", [acis_data |-> acis_data, dxfattribs |-> dxfattribs],
                  add_extruded_surface(Self(dbok), acis_data, Caller(dxfattribs)))

AddLoftedSurface ==
    \E acis_data \in AcisArgs, dxfattribs \in CommonAttribs, dbok \in BOOLEAN :
        /\ Room
        /\ Return("add_lofted_surface", [acis_data |-> acis_data, dxfattribs |-> dxfattribs],
                  add_lofted_surface(Self(dbok), acis_data, Caller(dxfattribs)))

AddRevolvedSurface ==
    \E acis_data \in AcisArgs, dxfattribs \in CommonAttribs, dbok \in BOOLEAN :
        /\ Room
        /\ Return("add_revolved_surface", [acis_data |-> acis_data, dxfattribs |-> dxfattribs],
                  add_revolved_surface(Self(dbok), acis_data, Caller(dxfattribs)))

AddSweptSurface ==
    \E acis_data \in AcisArgs, dxfattribs \in CommonAttribs, dbok \in BOOLEAN :
        /\ Room
        /\ Return("add_swept_surface", [acis_data |-> acis_data, dxfattribs |-> dxfattribs],
                  add_swept_surface(Self(dbok), acis_data, Caller(dxfattribs)))

\* ---- dimensions ----
DimAttribs ==
    {None, Some([layer |-> "DIMS"]), Some([text_rotation |-> 30, defpoint |-> <<9, 9, 9>>]),
     Some([dimtype |-> 1])}
Overrides == {None, Some([dimtad |-> 1])}
Locations == {None, Some(<<5, 7>>)}
TextRotations == {None, Some(0), Some(45)}
AddLinearDim ==
    \E base \in {<<0, 5>>, <<3, 3, 0>>}, location \in Locations, angle \in {0, 90},
       text_rotation \in TextRotations, override \in Overrides, dxfattribs \in DimAttribs,
       dbok \in BOOLEAN :
        /\ Room
        /\ Return("add_linear_dim",
                  [base |-> base, p1 |-> <<0, 0>>, p2 |-> <<10, 0>>, location |-> location,
                   text |-> "<>", angle |-> angle, text_rotation |-> text_rotation,
                   dimstyle |-> "EZDXF", override |-> override, dxfattribs |-> dxfattribs],
                  add_linear_dim(Self(dbok), base, <<0, 0>>, <<10, 0>>, location, "<>", angle,
                                 text_rotation, "EZDXF", override, Caller(dxfattribs)))

\* Measurement points: p1 and p2 = p1 + d for the steps d along the axes, the
\* null step and a step along z alone.
Steps == {<<10, 0, 0>>, <<-10, 0, 0>>, <<0, 4, 0>>, <<0, -4, 0>>, <<0, 0, 0>>, <<0, 0, 5>>}
Distances == {5, -5, 10}
AddAlignedDim ==
    \E p1 \in {<<0, 0, 0>>, <<2, 3, 0>>}, d \in Steps, distance \in Distances,
       override \in Overrides, dxfattribs \in DimAttribs, dbok \in BOOLEAN :
        LET p2 == Sub(p1, Neg(d))
        IN  /\ Room
            /\ Return("add_aligned_dim",
                      [p1 |-> p1, p2 |-> p2, distance |-> distance, text |-> "<>",
                       dimstyle |-> "EZDXF", override |-> override, dxfattribs |-> dxfattribs],
                      add_aligned_dim(Self(dbok), p1, p2, distance, "<>", "EZDXF", override,
                                      Caller(dxfattribs)))

AddAngularDim ==
    \E override \in Overrides, dxfattribs \in DimAttribs, dbok \in BOOLEAN :
        /\ Room
        /\ Return("add_angular_dim", [override |-> override, dxfattribs |-> dxfattribs],
                  add_angular_dim(Self(dbok), override, Caller(dxfattribs)))

AddDiameterDim ==
    \E override \in Overrides, dxfattribs \in DimAttribs, dbok \in BOOLEAN :
        /\ Room
        /\ Return("add_diameter_dim", [override |-> override, dxfattribs |-> dxfattribs],
                  add_diameter_dim(Self(dbok), override, Caller(dxfattribs)))

AddRadiusDim ==
    \E override \in Overrides, dxfattribs \in DimAttribs, dbok \in BOOLEAN :
        /\ Room
        /\ Return("add_radius_dim", [override |-> override, dxfattribs |-> dxfattribs],
                  add_radius_dim(Self(dbok), override, Caller(dxfattribs)))

AddAngular3pDim ==
    \E override \in Overrides, dxfattribs \in DimAttribs, dbok \in BOOLEAN :
        /\ Room
        /\ Return("add_angular_3p_dim", [override |-> override, dxfattribs |-> dxfattribs],
                  add_angular_3p_dim(Self(dbok), override, Caller(dxfattribs)))

AddOrdinateDim ==
    \E override \in Overrides, dxfattribs \in DimAttribs, dbok \in BOOLEAN :
        /\ Room
        /\ Return("add_ordinate_dim", [override |-> override, dxfattribs |-> dxfattribs],
                  add_ordinate_dim(Self(dbok), override, Caller(dxfattribs)))

\* ---- entities of every version ----
AddPoint ==
    \E location \in {<<0, 0>>, <<1, 2, 3>>}, dxfattribs \in CommonAttribs, dbok \in BOOLEAN :
        /\ Room
        /\ Return("add_point", [location |-> location, dxfattribs |-> dxfattribs],
                  add_point(Self(dbok), location, Caller(dxfattribs)))

AddLine ==
    \E start \in {<<0, 0>>, <<1, 2, 3>>}, dxfattribs \in CommonAttribs, dbok \in BOOLEAN :
        /\ Room
        /\ Return("add_line", [start |-> start, end |-> <<5, 5>>, dxfattribs |-> dxfattribs],
                  add_line(Self(dbok), start, <<5, 5>>, Caller(dxfattribs)))

AddCircle ==
    \E center \in {<<0, 0>>, <<1, 2, 3>>}, radius \in {1, 2}, dxfattribs \in CommonAttribs,
       dbok \in BOOLEAN :
        /\ Room
        /\ Return("add_circle", [center |-> center, radius |-> radius, dxfattribs |-> dxfattribs],
                  add_circle(Self(dbok), center, radius, Caller(dxfattribs)))

AddArc ==
    \E center \in {<<0, 0>>, <<1, 2, 3>>}, is_counter_clockwise \in BOOLEAN,
       dxfattribs \in CommonAttribs, dbok \in BOOLEAN :
        /\ Room
        /\ Return("add_arc",
                  [center |-> center, radius |-> 1, start_angle |-> 30, end_angle |-> 90,
                   is_counter_clockwise |-> is_counter_clockwise, dxfattribs |-> dxfattribs],
                  add_arc(Self(dbok), center, 1, 30, 90, is_counter_clockwise, Caller(dxfattribs)))

TextAttribs == CommonAttribs \cup {Some([insert |-> <<4, 5>>]), Some([insert |-> <<4, 5>>, text |-> "old"])}
AddText ==
    \E text \in {"", "note"}, dxfattribs \in TextAttribs, dbok \in BOOLEAN :
        /\ Room
        /\ Return("add_text", [text |-> text, dxfattribs |-> dxfattribs],
                  add_text(Self(dbok), text, Caller(dxfattribs)))

BlockNames == {"TITLE", "LOGO", "MISSING"}
AddBlockref ==
    \E name \in BlockNames, insert \in {<<0, 0>>, <<7, 8>>}, dxfattribs \in CommonAttribs,
       dbok \in BOOLEAN :
        /\ Room
        /\ Return("add_blockref", [name |-> name, insert |-> insert, dxfattribs |-> dxfattribs],
                  add_blockref(Self(dbok), name, insert, Caller(dxfattribs)))

\* values: tag -> text, for no tag, for one tag and for every tag of TITLE
ValueDicts == {EmptyDict, [NAME |-> "Alice"], [NAME |-> "Alice", DATE |-> "2018", EXTRA |-> "x"]}
AddAutoBlockref ==
    \E name \in BlockNames, insert \in {<<0, 0>>, <<7, 8>>}, values \in ValueDicts,
       dxfattribs \in CommonAttribs, dbok \in BOOLEAN :
        /\ Room
        /\ AnonymousCount(blocks) < MaxAnonymous
        /\ Return("add_auto_blockref",
                  [name |-> name, insert |-> insert, values |-> values, dxfattribs |-> dxfattribs],
                  add_auto_blockref(Self(dbok), name, insert, values, Caller(dxfattribs)))

AddAttrib ==
    \E tag \in {"NAME", "DATE"}, insert \in {<<0, 0>>, <<7, 8>>},
       dxfattribs \in CommonAttribs \cup {Some([tag |-> "OLD"])}, dbok \in BOOLEAN :
        /\ Room
        /\ Return("add_attrib",
                  [tag |-> tag, text |-> "Alice", insert |-> insert, dxfattribs |-> dxfattribs],
                  add_attrib(Self(dbok), tag, "Alice", insert, Caller(dxfattribs)))

AddShape ==
    \E insert \in {<<0, 0>>, <<7, 8>>}, size \in {1, 2}, dxfattribs \in CommonAttribs,
       dbok \in BOOLEAN :
        /\ Room
        /\ Return("add_shape",
                  [name |-> "BOX", insert |-> insert, size |-> size, dxfattribs |-> dxfattribs],
                  add_shape(Self(dbok), "BOX", insert, size, Caller(dxfattribs)))

\* ---- polylines ----
PolylineAttribs ==
    {None, Some([layer |-> "WALLS"]), Some([flags |-> 1]), Some([closed |-> TRUE, flags |-> 3]),
     Some([closed |-> FALSE, flags |-> 8]), Some([flags |-> 201])}
AddPolyline2d ==
    \E points \in {<<>>, <<<<0, 0>>, <<3, 0>>, <<3, 4>>>>},
       dxfattribs \in PolylineAttribs, dbok \in BOOLEAN :
        /\ Room
        /\ Return("add_polyline2d", [points |-> points, dxfattribs |-> dxfattribs],
                  add_polyline2d(Self(dbok), points, Caller(dxfattribs)))

AddPolyline3d ==
    \E points \in {<<>>, <<<<0, 0, 0>>, <<3, 0, 1>>, <<3, 4, 2>>>>},
       dxfattribs \in PolylineAttribs, dbok \in BOOLEAN :
        /\ Room
        /\ Return("add_polyline3d", [points |-> points, dxfattribs |-> dxfattribs],
                  add_polyline3d(Self(dbok), points, Caller(dxfattribs)))

MeshAttribs ==
    {None, Some([layer |-> "WALLS"]), Some([flags |-> 1, m_close |-> TRUE]),
     Some([flags |-> 33, n_close |-> TRUE, m_count |-> 7]),
     Some([flags |-> 80, m_close |-> FALSE, n_close |-> TRUE])}
MeshSizes == {<<3, 3>>, <<1, 4>>, <<0, 0>>, <<2, 1>>}
AddPolymesh ==
    \E size \in MeshSizes, dxfattribs \in MeshAttribs, dbok \in BOOLEAN :
        /\ Room
        /\ Return("add_polymesh", [size |-> size, dxfattribs |-> dxfattribs],
                  add_polymesh(Self(dbok), size, Caller(dxfattribs)))

AddPolyface ==
    \E dxfattribs \in MeshAttribs, dbok \in BOOLEAN :
        /\ Room
        /\ Return("add_polyface", [dxfattribs |-> dxfattribs],
                  add_polyface(Self(dbok), Caller(dxfattribs)))

\* The application is done with the value or the exception of the last call.
\* ---- rendering collaborators ----
DimPointLists ==
    {<<<<0, 0>>>>, <<<<0, 0>>, <<2, 0>>>>, <<<<0, 0>>, <<2, 0>>, <<4, 0>>>>}
AddMultiPointLinearDim ==
    \E points \in DimPointLists, angle \in {0, 90}, override \in Overrides,
       dxfattribs \in DimAttribs, discard \in BOOLEAN, dbok \in BOOLEAN :
        /\ Room
        /\ Return("add_multi_point_linear_dim",
                  [base |-> <<0, 2>>, points |-> points, angle |-> angle, ucs |-> None,
                   avoid_double_rendering |-> TRUE, dimstyle |-> "EZDXF",
                   override |-> override, dxfattribs |-> dxfattribs, discard |-> discard],
                  add_multi_point_linear_dim(Self(dbok), <<0, 2>>, points, angle, None, TRUE,
                                             "EZDXF", override, Caller(dxfattribs), discard))

ArrowNames == {"CLOSED", "DOT"}
AddArrow ==
    \E name \in ArrowNames, insert \in {<<1, 1>>, <<1, 2, 3>>}, rotation \in {0, 90},
       dxfattribs \in ClosedAttribs, dbok \in BOOLEAN :
        /\ Room
        /\ Return("add_arrow",
                  [name |-> name, insert |-> insert, size |-> 1, rotation |-> rotation,
                   dxfattribs |-> dxfattribs],
                  add_arrow(Self(dbok), name, insert, 1, rotation, Caller(dxfattribs)))

AddArrowBlockref ==
    \E name \in {"CLOSED"}, insert \in {<<1, 1>>, <<1, 2, 3>>}, size \in {1, 2},
       rotation \in {0, 90}, dxfattribs \in CommonAttribs \cup {Some([rotation |-> 30])},
       dbok \in BOOLEAN, copies \in BOOLEAN :
        /\ Room
        /\ Return("add_arrow_blockref",
                  [name |-> name, insert |-> insert, size |-> size, rotation |-> rotation,
                   dxfattribs |-> dxfattribs, copies |-> copies],
                  add_arrow_blockref([Self(dbok) EXCEPT !.copies = copies], name, insert,
                                     size, rotation, Caller(dxfattribs)))

\* new_entity called by the application itself: the mapping of the caller is
\* the one create_db_entry receives.
NewEntity ==
    \E type_ \in {"POINT", "3DSOLID"}, dxfattribs \in {EmptyDict, [layer |-> "WALLS"]},
       dbok \in BOOLEAN :
        /\ Room
        /\ Return("new_entity", [type_ |-> type_, dxfattribs |-> Some(dxfattribs)],
                  new_entity(Self(dbok), type_, Caller(Some(dxfattribs))[1]))

Discard ==
    /\ result # NoCall
    /\ result' = NoCall
    /\ UNCHANGED <<dxfversion, db, space, objects, image_def, underlay_def, blocks>>

\* The attribute-definition placeholders of the block TITLE: one with a prompt
\* and a handle, one with a handle alone.
TitleAttdefs ==
    <<[dxf |-> [handle |-> "2A", tag |-> "NAME", insert |-> <<1, 1>>, prompt |-> "Name?",
                text |-> "", layer |-> "ATTRIBS"]],
      [dxf |-> [handle |-> "2B", tag |-> "DATE", insert |-> <<1, 2>>, text |-> "today",
                height |-> 2]]>>

Init ==
    /\ dxfversion \in Versions
    /\ db = <<>>
    /\ space = <<>>
    /\ objects = <<>>
    /\ image_def = [handle |-> 101, image_size |-> <<4, 2>>, reactors |-> <<>>]
    /\ underlay_def = [handle |-> 102, entity_name |-> "PDFUNDERLAY", reactors |-> <<>>]
    /\ blocks = [n \in {"TITLE", "LOGO"} |->
                    IF n = "TITLE" THEN [attdefs |-> TitleAttdefs, space |-> <<>>]
                    ELSE [attdefs |-> <<>>, space |-> <<>>]]
    /\ result = NoCall

Next ==
    \/ NewEntity
    \/ AddSolid
    \/ AddTrace
    \/ Add3dface
    \/ AddEllipse
    \/ AddLwpolyline
    \/ AddMtext
    \/ AddRay
    \/ AddXline
    \/ AddSpline
    \/ AddSplineControlFrame
    \/ AddSplineApprox
    \/ AddOpenSpline
    \/ AddClosedSpline
    \/ AddRationalSpline
    \/ AddClosedRationalSpline
    \/ AddBody
    \/ AddRegion
    \/ Add3dsolid
    \/ AddHatch
    \/ AddMesh
    \/ AddImage
    \/ AddUnderlay
    \/ AddSurface
    \/ AddExtrudedSurface
    \/ AddLoftedSurface
    \/ AddRevolvedSurface
    \/ AddSweptSurface
    \/ AddLinearDim
    \/ AddAlignedDim
    \/ AddAngularDim
    \/ AddDiameterDim
    \/ AddRadiusDim
    \/ AddAngular3pDim
    \/ AddOrdinateDim
    \/ AddPoint
    \/ AddLine
    \/ AddCircle
    \/ AddArc
    \/ AddText
    \/ AddBlockref
    \/ AddAutoBlockref
    \/ AddAttrib
    \/ AddShape
    \/ AddPolyline2d
    \/ AddPolyline3d
    \/ AddPolymesh
    \/ AddPolyface
    \/ AddMultiPointLinearDim
    \/ AddArrow
    \/ AddArrowBlockref
    \/ Discard

Spec == Init /\ [][Next]_vars

(************************ properties ***************************************)
QuadOps == {"add_solid", "add_trace", "add_3dface"}
CallsOf(fn) == SelectSeq(result.calls, LAMBDA c : c.fn = fn)
Created == CallsOf("create_db_entry")
Added == CallsOf("add_entity")

\* The vertex slots a quadrilateral call has assigned, in assignment order.
SlotCalls == CallsOf("setitem")
SlotsAre(h, values) ==
    /\ Len(SlotCalls) = Len(values)
    /\ \A i \in 1..Len(values) :
        /\ SlotCalls[i].handle = h
        /\ SlotCalls[i].index = i - 1
        /\ SlotCalls[i].value = values[i]

\* C1: add_solid, add_trace and add_3dface given 3 points [A,B,C] set the
\* vertex slots 0..3 of the created entity to A,B,C,C (the last point again),
\* and given 4 points [A,B,C,D] set them to A,B,C,D, when the database
\* creates the entity.
C1_QuadSlots ==
    (result.op \in QuadOps /\ result.dbok /\ Len(result.args.points) \in {3, 4}) =>
        LET p == result.args.points
        IN  /\ result.err = ""
            /\ result.ret.dxftype = CASE result.op = "add_solid" -> "SOLID"
                                      [] result.op = "add_trace" -> "TRACE"
                                      [] OTHER -> "3DFACE"
            /\ IF Len(p) = 3
               THEN SlotsAre(result.ret.handle, <<p[1], p[2], p[3], p[3]>>)
               ELSE SlotsAre(result.ret.handle, <<p[1], p[2], p[3], p[4]>>)

C1_Witness ==
    /\ result.op = "add_trace"
    /\ Len(result.args.points) = 3
    /\ result.err = ""
    /\ Len(SlotCalls) = 4
    /\ SlotCalls[4].value = result.args.points[3]
    /\ SlotCalls[4].value # result.args.points[1]

\* C2: a point sequence of a length other than 3 or 4 makes add_solid,
\* add_trace and add_3dface fail with DXFValueError, and no vertex slot is
\* assigned (the database having accepted the creation request that the
\* factory makes first).
C2_WrongCountFails ==
    (result.op \in QuadOps /\ result.dbok /\ Len(result.args.points) \notin {3, 4}) =>
        /\ result.err = "DXFValueError"
        /\ result.ret = NoRet
        /\ SlotCalls = <<>>

C2_Witness ==
    /\ result.op = "add_solid"
    /\ Len(result.args.points) = 5
    /\ result.err = "DXFValueError"
    /\ SlotCalls = <<>>

\* C3: when add_solid, add_trace or add_3dface fails because of a wrong point
\* count, no call to the creation collaborator has been made: no entity was
\* created in the database and none was added to the entity space.
C3_NoCreationOnWrongCount ==
    (result.op \in QuadOps /\ result.err = "DXFValueError") =>
        /\ Created = <<>>
        /\ Added = <<>>

R2000Ops ==
    {"add_ellipse", "add_lwpolyline", "add_mtext", "add_ray", "add_xline", "add_spline",
     "add_spline_control_frame", "add_spline_approx", "add_open_spline", "add_closed_spline",
     "add_rational_spline", "add_closed_rational_spline", "add_body", "add_region",
     "add_3dsolid", "add_hatch", "add_mesh", "add_image", "add_underlay"}
DocumentUnchanged == UNCHANGED <<db, space, objects, image_def, underlay_def, blocks>>

\* C4: every operation gated at R2000, called when the active version is lower
\* than R2000, fails with DXFVersionError and makes no call to a collaborator:
\* the entity database, the entity space and the definition objects passed
\* to it are unchanged.
C4_GateR2000 ==
    [][(result'.op \in R2000Ops /\ StrLess(dxfversion, DXF2000)) =>
          /\ result'.err = "DXFVersionError"
          /\ result'.calls = <<>>
          /\ DocumentUnchanged]_vars

SurfaceType(op) ==
    CASE op = "add_surface" -> "SURFACE"
      [] op = "add_extruded_surface" -> "EXTRUDEDSURFACE"
      [] op = "add_lofted_surface" -> "LOFTEDSURFACE"
      [] op = "add_revolved_surface" -> "REVOLVEDSURFACE"
      [] op = "add_swept_surface" -> "SWEPTSURFACE"
SurfaceOps ==
    {"add_surface", "add_extruded_surface", "add_lofted_surface", "add_revolved_surface",
     "add_swept_surface"}

\* C5: a surface-family operation called under a version below R2007 (R2000
\* among them) fails with DXFVersionError and creates nothing; under R2007 or
\* later, the database accepting the request, it succeeds and creates exactly
\* one entity, of the requested kind.
C5_GateR2007 ==
    [][result'.op \in SurfaceOps =>
          IF StrLess(dxfversion, DXF2007)
          THEN /\ result'.err = "DXFVersionError"
               /\ result'.calls = <<>>
               /\ DocumentUnchanged
          ELSE result'.dbok =>
               /\ result'.err = ""
               /\ Len(db') = Len(db) + 1
               /\ db'[Len(db')].dxftype = SurfaceType(result'.op)
               /\ space' = Append(space, db'[Len(db')].handle)
               /\ result'.ret.handle = db'[Len(db')].handle
               /\ result'.ret.dxftype = SurfaceType(result'.op)
               /\ Len(SelectSeq(result'.calls, LAMBDA c : c.fn = "create_db_entry")) = 1]_vars

C5_Witness ==
    /\ result.op = "add_swept_surface"
    /\ dxfversion = AC1015
    /\ result.err = "DXFVersionError"
    /\ db = <<>>

\* C6: at every version that permits ELLIPSE, add_ellipse with a ratio above
\* 1.0 fails with DXFValueError and creates no entity, and with the ratio 1.0
\* it succeeds (the database accepting the request) and creates one ELLIPSE
\* whose ratio attribute is 1.0, whatever the other arguments are.
C6_EllipseRatio ==
    (result.op = "add_ellipse" /\ ~StrLess(dxfversion, DXF2000)) =>
        LET ratio == result.args.ratio
        IN  /\ ratio[1] > ratio[2] =>
                /\ result.err = "DXFValueError"
                /\ result.calls = <<>>
            /\ (ratio[1] = ratio[2] /\ result.dbok) =>
                /\ result.err = ""
                /\ Len(Created) = 1
                /\ Created[1].type = "ELLIPSE"
                /\ Created[1].dxfattribs["ratio"] = ratio
                /\ result.ret.dxftype = "ELLIPSE"
                /\ result.ret.dxf["ratio"] = ratio

C6_Witness ==
    /\ result.op = "add_ellipse"
    /\ result.args.ratio = <<1, 1>>
    /\ result.args.dxfattribs = Some([ratio |-> <<3, 1>>])
    /\ result.err = ""
    /\ result.ret.dxf["ratio"] = <<1, 1>>

\* C7: add_aligned_dim(p1, p2, distance, ...) makes the calls, and returns the
\* override, of add_linear_dim with base = the perpendicular of p2 - p1 scaled
\* to length distance, the same p1 and p2, angle = the angle of p2 - p1, and
\* neither text_rotation nor location; where that base does not exist (the
\* perpendicular is null) the call fails dividing by zero and creates nothing.
C7_AlignedIsLinear ==
    [][result'.op = "add_aligned_dim" =>
          LET a == result'.args
              direction == Sub(Vector(a.p2), Vector(a.p1))
              base == normalize(orthogonal(direction), a.distance)
              linear == add_linear_dim(Self(result'.dbok), base.v, a.p1, a.p2, None, a.text,
                                       angle_deg(direction), None, a.dimstyle, a.override,
                                       Caller(a.dxfattribs))
          IN  IF base.err # ""
              THEN result'.err = "ZeroDivisionError" /\ result'.calls = <<>>
              ELSE /\ result'.err = linear.err
                   /\ result'.ret = linear.ret
                   /\ result'.calls = linear.w.calls
                   /\ db' = linear.w.db
                   /\ space' = linear.w.space]_vars

C7_Witness ==
    /\ result.op = "add_aligned_dim"
    /\ result.args.p1 = <<2, 3, 0>>
    /\ result.args.p2 = <<2, 7, 0>>
    /\ result.err = ""
    /\ result.ret.dimline.dxf["angle"] = 90
    /\ "text_rotation" \notin DOMAIN result.ret.dimline.dxf
    /\ CallsOf("set_location") = <<>>

\* C8: the defpoint add_aligned_dim derives is the counter-clockwise
\* perpendicular of p2 - p1 of length |distance| from the origin (on the
\* other side for a negative distance), the angle is the direction of
\* p2 - p1: angle 0 and defpoint (0,5,0) for p1=(0,0), p2=(10,0), distance=5;
\* defpoint (0,distance,0) for every horizontal segment with p2.x > p1.x,
\* whatever p1 is; and -distance gives the negated defpoint.
C8_AlignedBase ==
    (result.op = "add_aligned_dim" /\ result.err = "") =>
        LET a == result.args
            d == Sub(a.p2, a.p1)
            dxf == result.ret.dimline.dxf
            D == dxf["defpoint"]
            other == add_aligned_dim(Self(TRUE), a.p1, a.p2, -a.distance, a.text, a.dimstyle,
                                     a.override, Caller(a.dxfattribs))
        IN  /\ D[1] * d[1] + D[2] * d[2] = 0
            /\ D[3] = 0
            /\ D[1] * D[1] + D[2] * D[2] = a.distance * a.distance
            /\ (d[1] * D[2] - d[2] * D[1]) * a.distance > 0
            /\ CosDeg(dxf["angle"] + 360) * magnitude(d) = d[1]
            /\ SinDeg(dxf["angle"] + 360) * magnitude(d) = d[2]
            /\ (a.p1 = <<0, 0, 0>> /\ a.p2 = <<10, 0, 0>> /\ a.distance = 5) =>
                   dxf["angle"] = 0 /\ D = <<0, 5, 0>>
            /\ (d[2] = 0 /\ d[3] = 0 /\ d[1] > 0) => D = <<0, a.distance, 0>>
            /\ other.ret.dimline.dxf["defpoint"] = Neg(D)

C8_Witness ==
    /\ result.op = "add_aligned_dim"
    /\ result.args.p1 = <<2, 3, 0>>
    /\ result.args.p2 = <<12, 3, 0>>
    /\ result.args.distance = -5
    /\ result.err = ""
    /\ result.ret.dimline.dxf["defpoint"] = <<0, -5, 0>>

\* C9: in add_linear_dim a text_rotation that is not None is the text_rotation
\* of the DIMENSION entity, whatever the angle is and whatever text_rotation
\* the caller's dxfattribs holds; with text_rotation None the factory sets
\* none, and the entity has the entry of the caller's dxfattribs, if any.
C9_TextRotation ==
    (result.op = "add_linear_dim" /\ result.err = "") =>
        LET a == result.args
            given == Contents(a.dxfattribs)
            dxf == result.ret.dimline.dxf
            sent == CallsOf("update_dxf_attribs")[1].args.dxfattribs
        IN  IF ~IsNone(a.text_rotation)
            THEN /\ "text_rotation" \in DOMAIN dxf
                 /\ dxf["text_rotation"] = a.text_rotation[1]
                 /\ sent["text_rotation"] = a.text_rotation[1]
            ELSE IF "text_rotation" \in DOMAIN given
            THEN /\ dxf["text_rotation"] = given["text_rotation"]
                 /\ sent["text_rotation"] = given["text_rotation"]
            ELSE /\ "text_rotation" \notin DOMAIN dxf
                 /\ "text_rotation" \notin DOMAIN sent

C9_Witness ==
    /\ result.op = "add_linear_dim"
    /\ result.args.text_rotation = Some(0)
    /\ result.args.angle = 90
    /\ "text_rotation" \in DOMAIN Contents(result.args.dxfattribs)
    /\ result.err = ""
    /\ result.ret.dimline.dxf["text_rotation"] = 0

DimOps ==
    {"add_linear_dim", "add_aligned_dim", "add_angular_dim", "add_diameter_dim",
     "add_radius_dim", "add_angular_3p_dim", "add_ordinate_dim"}
FactoryCalls == {"create_db_entry", "add_entity", "cast", "update_dxf_attribs", "DimStyleOverride"}

\* C10: the dimension operations never render: each returns an override bound
\* to the DIMENSION entity it has just created, render has not been called,
\* and the one further call made on the override is add_linear_dim's
\* set_location(location, leader=False, relative=False), made if and only if
\* location is not None.
C10_NoRender ==
    (result.op \in DimOps /\ result.err = "") =>
        LET style == result.ret
            made == CallsOf("DimStyleOverride")
            located == CallsOf("set_location")
        IN  /\ CallsOf("render") = <<>>
            /\ Len(Created) = 1
            /\ Created[1].type = "DIMENSION"
            /\ style.dimline.dxftype = "DIMENSION"
            /\ style.dimline.handle = db[Len(db)].handle
            /\ Len(made) = 1
            /\ made[1].handle = style.dimline.handle
            /\ \A i \in 1..Len(result.calls) :
                   result.calls[i].fn \in FactoryCalls \cup {"set_location"}
            /\ IF result.op = "add_linear_dim" /\ ~IsNone(result.args.location)
               THEN /\ Len(located) = 1
                    /\ located[1] = [fn |-> "set_location", handle |-> style.dimline.handle,
                                     location |-> result.args.location[1],
                                     leader |-> FALSE, relative |-> FALSE]
                    /\ result.calls[Len(result.calls)] = located[1]
               ELSE located = <<>>

C10_Witness ==
    /\ result.op = "add_linear_dim"
    /\ result.args.location = Some(<<5, 7>>)
    /\ result.err = ""
    /\ Len(CallsOf("set_location")) = 1
    /\ CallsOf("render") = <<>>

AttribCalls == CallsOf("add_attrib")

\* C11: whatever block add_auto_blockref is called for, the attribute set it
\* passes on with each attribute instance has neither a prompt nor a handle
\* entry, although the placeholders of the block have them.
C11_NoPromptNoHandle ==
    result.op = "add_auto_blockref" =>
        \A i \in 1..Len(AttribCalls) :
            /\ "prompt" \notin DOMAIN AttribCalls[i].dxfattribs
            /\ "handle" \notin DOMAIN AttribCalls[i].dxfattribs

C11_Witness ==
    /\ result.op = "add_auto_blockref"
    /\ result.args.name = "TITLE"
    /\ result.err = ""
    /\ "prompt" \in DOMAIN blocks["TITLE"].attdefs[1].dxf
    /\ "handle" \in DOMAIN blocks["TITLE"].attdefs[1].dxf
    /\ "handle" \in DOMAIN blocks["TITLE"].attdefs[2].dxf
    /\ Len(AttribCalls) = 2
    /\ AttribCalls[1].dxfattribs = [text |-> "", layer |-> "ATTRIBS"]

\* C12: a successful add_auto_blockref creates one new anonymous block, adds
\* to it one block reference to the named block at (0,0), attaches to that
\* reference one attribute instance per placeholder of the named block, in the
\* placeholders' order, each with the placeholder's tag and insert point and
\* with the text values[tag], or "" when values has no such tag, and returns a
\* block reference to the anonymous block at the caller's insert point.
C12_AutoBlockref ==
    [][(result'.op = "add_auto_blockref" /\ result'.err = "") =>
          LET a == result'.args
              calls == result'.calls
              anon == SelectSeq(calls, LAMBDA c : c.fn = "new_anonymous_block")
              created == SelectSeq(calls, LAMBDA c : c.fn = "create_db_entry")
              attribs == SelectSeq(calls, LAMBDA c : c.fn = "add_attrib")
              attdefs == blocks[a.name].attdefs
              inner == db'[Len(db) + 1]
              outer == db'[Len(db) + 2]
          IN  /\ Len(anon) = 1
              /\ anon[1].name \notin DOMAIN blocks
              /\ DOMAIN blocks' = DOMAIN blocks \cup {anon[1].name}
              /\ \A n \in DOMAIN blocks : blocks'[n] = blocks[n]
              /\ Len(db') = Len(db) + 2
              /\ Len(created) = 2
              /\ created[1].type = "INSERT"
              /\ created[1].dxfattribs = [name |-> a.name, insert |-> <<0, 0>>]
              /\ inner.dxftype = "INSERT"
              /\ blocks'[anon[1].name].space = <<inner.handle>>
              /\ Len(attribs) = Len(attdefs)
              /\ \A i \in 1..Len(attdefs) :
                    /\ attribs[i].handle = inner.handle
                    /\ attribs[i].tag = attdefs[i].dxf["tag"]
                    /\ attribs[i].insert = attdefs[i].dxf["insert"]
                    /\ attribs[i].text = IF attribs[i].tag \in DOMAIN a.values
                                         THEN a.values[attribs[i].tag] ELSE ""
              /\ created[2].type = "INSERT"
              /\ result'.ret.handle = outer.handle
              /\ result'.ret.dxftype = "INSERT"
              /\ result'.ret.dxf["name"] = anon[1].name
              /\ result'.ret.dxf["insert"] = a.insert
              /\ space' = Append(space, outer.handle)]_vars

C12_Witness ==
    /\ result.op = "add_auto_blockref"
    /\ result.args.name = "TITLE"
    /\ result.args.values = [NAME |-> "Alice"]
    /\ result.args.insert = <<7, 8>>
    /\ result.err = ""
    /\ Len(AttribCalls) = 2
    /\ AttribCalls[1].tag = "NAME" /\ AttribCalls[1].text = "Alice"
    /\ AttribCalls[1].insert = <<1, 1>>
    /\ AttribCalls[2].tag = "DATE" /\ AttribCalls[2].text = ""
    /\ AttribCalls[2].insert = <<1, 2>>
    /\ result.ret.dxf["name"] = "*U1"
    /\ result.ret.dxf["insert"] = <<7, 8>>

KindBit(op) ==
    CASE op = "add_polyline3d" -> POLYLINE_3D_POLYLINE
      [] op = "add_polymesh" -> POLYLINE_3D_POLYMESH
      [] op = "add_polyface" -> POLYLINE_POLYFACE
FlagOps == {"add_polyline3d", "add_polymesh", "add_polyface"}
\* bit k of the non-negative integer n is set
BitSet(n, k) == (n \div (2 ^ k)) % 2 = 1
FlagBits == 0..8

\* C13: the flags add_polyline3d, add_polymesh and add_polyface hand to the
\* creation collaborator are the caller's flags (0 when absent) with the kind
\* bit of the operation set: a bit is set in them exactly when the caller had
\* set it or it is the kind bit.
C13_FlagsOr ==
    result.op \in FlagOps =>
        LET caller == Lookup(Contents(result.args.dxfattribs), "flags", 0)
            kind == KindBit(result.op)
        IN  /\ Len(Created) = 1
            /\ Created[1].type = "POLYLINE"
            /\ "flags" \in DOMAIN Created[1].dxfattribs
            /\ \A k \in FlagBits :
                   BitSet(Created[1].dxfattribs["flags"], k) <=>
                       (BitSet(caller, k) \/ BitSet(kind, k))
            /\ Created[1].dxfattribs["flags"] < 2 ^ 9
            /\ Created[1].dxfattribs["flags"] = BitOr(caller, kind)

C13_Witness ==
    /\ result.op = "add_polymesh"
    /\ result.args.dxfattribs = Some([flags |-> 33, n_close |-> TRUE, m_count |-> 7])
    /\ result.err = ""
    /\ Created[1].dxfattribs["flags"] = 49
    /\ result.ret.dxf["flags"] = 49

C15_CallerPrecedence ==
    LET given == Contents(result.args.dxfattribs)
    IN  /\ (result.op = "add_text") =>
               /\ Len(Created) = 1
               /\ Created[1].dxfattribs["insert"] = Lookup(given, "insert", Origin)
        /\ (result.op = "add_hatch" /\ ~StrLess(dxfversion, DXF2000)) =>
               /\ Len(Created) = 1
               /\ Created[1].dxfattribs["solid_fill"] = Lookup(given, "solid_fill", 1)
               /\ Created[1].dxfattribs["pattern_name"] = Lookup(given, "pattern_name", "SOLID")

SingleEntityOps ==
    {"add_point", "add_line", "add_circle", "add_arc", "add_ellipse", "add_text", "add_shape",
     "add_attrib", "add_blockref", "add_ray", "add_xline", "add_hatch", "add_mesh",
     "add_spline"} \cup DimOps
\* The entity a call returns, or the entity the returned override is bound to.
ReturnedEntity == IF result.op \in DimOps THEN result.ret.dimline ELSE result.ret

\* C16: a single-entity operation that succeeds has made exactly one
\* create_db_entry call and then exactly one add_entity call, with the entity
\* just created, and returns that entity or an override bound to it; when
\* create_db_entry fails, the call fails with the collaborator's error,
\* add_entity has not been called and no second creation has been attempted.
C16_OneCreation ==
    result.op \in SingleEntityOps =>
        IF result.err = ""
        THEN /\ Len(Created) = 1
             /\ Len(Added) = 1
             /\ result.calls[1].fn = "create_db_entry"
             /\ result.calls[2].fn = "add_entity"
             /\ Added[1].handle = db[Len(db)].handle
             /\ space[Len(space)] = db[Len(db)].handle
             /\ ReturnedEntity.handle = db[Len(db)].handle
             /\ ReturnedEntity.dxftype = Created[1].type
             /\ result.dbok
        ELSE /\ Len(Created) <= 1
             /\ Added = <<>>
             /\ result.ret = NoRet
             /\ Len(Created) = 1 => (~result.dbok /\ result.err = "DXFError")

C16_Witness ==
    /\ result.op = "add_radius_dim"
    /\ ~result.dbok
    /\ result.err = "DXFError"
    /\ Len(Created) = 1
    /\ Added = <<>>
    /\ db = <<>>

FrameOps == {"add_spline_control_frame", "add_spline_approx"}
\* The parameter vector the control frame of the call is computed over.
TVectorOf(a) == create_t_vector(a.fit_points, a.method, a.power)
\* The arguments from which the parameter vector of a control frame can be
\* computed.
Parametrizable(a) ==
    /\ Len(a.fit_points) >= 2
    /\ a.degree >= 1
    /\ a.method \in Methods
    /\ TVectorOf(a).err = ""

C18_TVectorIncreasing ==
    (result.op = "add_spline_control_frame" /\ Len(result.args.fit_points) >= 2
         /\ result.args.method \in Methods) =>
        LET t == TVectorOf(result.args)
        IN  /\ t.err = ""
            /\ Len(t.t) = Len(result.args.fit_points)
            /\ RatEq(t.t[1], <<0, 1>>)
            /\ \A i \in 1..(Len(t.t) - 1) : RatLess(t.t[i], t.t[i + 1])

\* C19: add_spline_control_frame and add_spline_approx called with a method
\* name other than uniform, distance and centripetal fail with DXFValueError
\* before any collaborator of the document is called, so no entity is
\* created; each of the three names is accepted.
C19_MethodNames ==
    result.op \in FrameOps =>
        LET a == result.args
        IN  /\ a.method \notin Methods =>
                   /\ result.err = "DXFValueError"
                   /\ result.calls = <<>>
                   /\ result.ret = NoRet
            /\ (Parametrizable(a) /\ ~StrLess(dxfversion, DXF2000) /\ result.dbok
                    /\ (result.op = "add_spline_approx" =>
                            (a.degree + 1 <= a.count /\ a.count <= Len(a.fit_points))))
                   => result.err = ""

C19_Witness ==
    /\ result.op = "add_spline_approx"
    /\ result.args.method = "bezier"
    /\ Len(result.args.fit_points) = 4
    /\ result.args.degree = 2
    /\ dxfversion = AC1015
    /\ result.dbok
    /\ result.err = "DXFValueError"
    /\ result.calls = <<>>
    /\ db = <<>>

ControlPointOps ==
    {"add_open_spline", "add_closed_spline", "add_rational_spline",
     "add_closed_rational_spline", "add_spline_approx"}

\* C20: every SPLINE that add_open_spline, add_closed_spline,
\* add_rational_spline, add_closed_rational_spline and add_spline_approx
\* return has len(control_points) + degree + 1 knot values and, where it has
\* weights, as many weights as control points, whatever knots and weights
\* the caller supplies.
C20_SplineLengths ==
    (result.op \in ControlPointOps /\ result.err = "") =>
        LET s == result.ret
        IN  /\ Len(s.knots) = Len(s.control_points) + s.dxf["degree"] + 1
            /\ ~IsNone(s.weights) => Len(s.weights[1]) = Len(s.control_points)

\* The type flag of the kind of dimension an operation requests.
DimKind(op) ==
    CASE op \in {"add_linear_dim", "add_aligned_dim"} -> DIM_LINEAR
      [] op = "add_angular_dim" -> DIM_ANGULAR
      [] op = "add_diameter_dim" -> DIM_DIAMETER
      [] op = "add_radius_dim" -> DIM_RADIUS
      [] op = "add_angular_3p_dim" -> DIM_ANGULAR_3P
      [] op = "add_ordinate_dim" -> DIM_ORDINATE

\* C21: whatever dxfattribs the caller passes, the DIMENSION entity of the
\* override a dimension operation returns has dimtype = the type flag of the
\* requested kind (the linear kind for add_aligned_dim) bitwise-OR the
\* block-exclusive flag, and is created with that dimtype alone.
C21_DimType ==
    (result.op \in DimOps /\ result.err = "") =>
        LET flag == BitOr(DimKind(result.op), DIM_BLOCK_EXCLUSIVE)
        IN  /\ Len(Created) = 1
            /\ Created[1].dxfattribs = [dimtype |-> flag]
            /\ result.ret.dimline.dxf["dimtype"] = flag

\* C22: in add_ellipse the version gate runs before the ratio validation:
\* called with a ratio above 1.0 when the active version is lower than R2000
\* it fails with DXFVersionError, not DXFValueError, and a call that fails
\* with either error has made no call to a collaborator and leaves the
\* document unchanged.
C22_EllipseGateFirst ==
    [][result'.op = "add_ellipse" =>
          /\ (StrLess(dxfversion, DXF2000) /\ RatGreater(result'.args.ratio, RatOne)) =>
                 result'.err = "DXFVersionError"
          /\ (~StrLess(dxfversion, DXF2000) /\ RatGreater(result'.args.ratio, RatOne)) =>
                 result'.err = "DXFValueError"
          /\ result'.err \in {"DXFVersionError", "DXFValueError"} =>
                 /\ result'.calls = <<>>
                 /\ DocumentUnchanged]_vars

C22_Witness ==
    /\ result.op = "add_ellipse"
    /\ StrLess(dxfversion, DXF2000)
    /\ RatGreater(result.args.ratio, RatOne)
    /\ result.err = "DXFVersionError"
    /\ result.calls = <<>>
    /\ db = <<>>

\* C23: add_auto_blockref called with a block name the block table does not
\* contain fails and leaves the document as it was before the call: no
\* anonymous block has been created and no block reference has been added.
C23_MissingBlockNoChange ==
    [][(result'.op = "add_auto_blockref" /\ result'.args.name \notin DOMAIN blocks) =>
          /\ result'.err # ""
          /\ SelectSeq(result'.calls, LAMBDA c : c.fn = "new_anonymous_block") = <<>>
          /\ SelectSeq(result'.calls, LAMBDA c : c.fn = "create_db_entry") = <<>>
          /\ DocumentUnchanged]_vars

\* The position in the call record of the one call of fn.
CallIndex(fn) == CHOOSE i \in 1..Len(result.calls) : result.calls[i].fn = fn
AtLeastTwo(k) == IF k < 2 THEN 2 ELSE k

\* C24: add_polymesh(size = (m, n)) requests a POLYLINE with m_count = m and
\* n_count = n, each raised to 2 where it is lower, whatever m_count and
\* n_count the caller's dxfattribs hold; on the created entity it appends
\* exactly m_count * n_count vertices, all (0, 0, 0), in one call, and then
\* applies the close flags.
C24_PolymeshGrid ==
    result.op = "add_polymesh" =>
        LET m_count == AtLeastTwo(result.args.size[1])
            n_count == AtLeastTwo(result.args.size[2])
            appended == CallsOf("append_vertices")
            closed == CallsOf("close")
        IN  /\ Len(Created) = 1
            /\ Created[1].type = "POLYLINE"
            /\ Created[1].dxfattribs["m_count"] = m_count
            /\ Created[1].dxfattribs["n_count"] = n_count
            /\ result.err = "" =>
                /\ result.ret.dxf["m_count"] = m_count
                /\ result.ret.dxf["n_count"] = n_count
                /\ Len(appended) = 1
                /\ appended[1].handle = result.ret.handle
                /\ Len(appended[1].args[1]) = m_count * n_count
                /\ \A i \in 1..Len(appended[1].args[1]) : appended[1].args[1][i] = <<0, 0, 0>>
                /\ Len(closed) = 1
                /\ closed[1].handle = result.ret.handle
                /\ CallIndex("create_db_entry") < CallIndex("append_vertices")
                /\ CallIndex("append_vertices") < CallIndex("close")
            /\ result.err # "" => (appended = <<>> /\ closed = <<>>)

C24_Witness ==
    /\ result.op = "add_polymesh"
    /\ result.args.size = <<1, 4>>
    /\ result.args.dxfattribs = Some([flags |-> 33, n_close |-> TRUE, m_count |-> 7])
    /\ result.err = ""
    /\ result.ret.dxf["m_count"] = 2
    /\ result.ret.dxf["n_count"] = 4
    /\ Len(CallsOf("append_vertices")[1].args[1]) = 8
    /\ CallsOf("close")[1].args = <<FALSE, TRUE>>

ClosedOps == {"add_polyline2d", "add_polyline3d", "add_lwpolyline"}
MeshCloseOps == {"add_polymesh", "add_polyface"}
PseudoAttribs == {"closed", "m_close", "n_close"}
\* The value of the pseudo-attribute k the caller asks for.
Asked(k) == Lookup(Contents(result.args.dxfattribs), k, FALSE)

\* C25: the attribute set add_polyline2d, add_polyline3d and add_lwpolyline
\* hand to the creation collaborator never holds 'closed', and the one
\* add_polymesh and add_polyface hand over never holds 'm_close' or
\* 'n_close'; the created entity receives them afterwards (close(closed),
\* lwpolyline.closed = closed, close(m_close, n_close)) with the caller's
\* values, False where the caller gave none.
C25_PseudoAttribs ==
    result.op \in ClosedOps \cup MeshCloseOps =>
        /\ \A i \in 1..Len(Created) :
               /\ result.op \in ClosedOps => "closed" \notin DOMAIN Created[i].dxfattribs
               /\ result.op \in MeshCloseOps =>
                      (DOMAIN Created[i].dxfattribs) \cap {"m_close", "n_close"} = {}
        /\ result.err = "" =>
               /\ Len(Created) = 1
               /\ (DOMAIN result.ret.dxf) \cap PseudoAttribs = {}
               /\ result.op \in {"add_polyline2d", "add_polyline3d"} =>
                      /\ Len(CallsOf("close")) = 1
                      /\ CallsOf("close")[1].handle = result.ret.handle
                      /\ CallsOf("close")[1].args = <<Asked("closed")>>
                      /\ CallIndex("create_db_entry") < CallIndex("close")
               /\ result.op = "add_lwpolyline" =>
                      /\ Len(CallsOf("setattr")) = 1
                      /\ CallsOf("setattr")[1] =
                             [fn |-> "setattr", handle |-> result.ret.handle,
                              name |-> "closed", value |-> Asked("closed")]
                      /\ CallIndex("create_db_entry") < CallIndex("setattr")
               /\ result.op \in MeshCloseOps =>
                      /\ Len(CallsOf("close")) = 1
                      /\ CallsOf("close")[1].handle = result.ret.handle
                      /\ CallsOf("close")[1].args = <<Asked("m_close"), Asked("n_close")>>
                      /\ CallIndex("create_db_entry") < CallIndex("close")

C25_Witness ==
    /\ result.op = "add_polyline3d"
    /\ result.args.dxfattribs = Some([closed |-> TRUE, flags |-> 3])
    /\ result.err = ""
    /\ Created[1].dxfattribs = [flags |-> 11]
    /\ CallsOf("close")[1].args = <<TRUE>>

====
